---------------------------- MODULE Spec2Model ----------------------------
(***************************************************************************)
(* A model of the mini-collide contact, plane, intersection, closest-point *)
(* and distance queries.                                                   *)
(*                                                                         *)
(* The library is a set of pure functions over immutable shapes.  A state  *)
(* of the model is one query (the operation and its two shapes) and the    *)
(* value the operation returned for it.                                    *)
(*                                                                         *)
(* Numbers.  An f32 is modelled by its exact real value, so rounding is    *)
(* abstracted away, but the IEEE special values that the code can produce  *)
(* by dividing by zero are kept.  A number is a record                     *)
(*     [f, a, b, d, k]                                                     *)
(* with f = "fin" standing for (a + b * sqrt(k)) / d, where d > 0, k is a  *)
(* square-free positive integer, gcd(a, b, d) = 1 and b = 0 <=> k = 1, so  *)
(* that equal reals are equal records; f = "nan", "pinf", "ninf" stand for *)
(* NaN and the two infinities.  Zero carries no sign.  Every square root   *)
(* the modelled code takes is of a rational, and every sum it forms is of  *)
(* numbers of one quadratic field; an operation outside that fragment has  *)
(* no value (OutsideField) and stops the model checker.                    *)
(***************************************************************************)
EXTENDS Integers, Sequences, FiniteSets, TLC

VARIABLES query, result

vars == <<query, result>>

-----------------------------------------------------------------------------
(* Integer helpers of the number representation.                           *)

Abs(i) == IF i < 0 THEN -i ELSE i

Sgn(i) == IF i > 0 THEN 1 ELSE IF i < 0 THEN -1 ELSE 0

RECURSIVE GCD(_, _)
GCD(m, n) == IF n = 0 THEN m ELSE GCD(n, m % n)

\* floor(sqrt(n)) for n >= 1, known to lie in lo .. hi; found by bisection.
RECURSIVE ISqrt(_, _, _)
ISqrt(n, lo, hi) ==
    IF lo >= hi THEN lo
    ELSE IF (lo + hi + 1) \div 2 <= n \div ((lo + hi + 1) \div 2)
         THEN ISqrt(n, (lo + hi + 1) \div 2, hi)
         ELSE ISqrt(n, lo, ((lo + hi + 1) \div 2) - 1)

\* The largest s >= 1 with s * s dividing n, for n >= 1.
SquarePart(n) ==
    LET Largest(S) == CHOOSE s \in S : \A t \in S : t <= s
    IN  Largest({s \in 1 .. ISqrt(n, 1, n) : n % (s * s) = 0})

OutsideField == CHOOSE x \in {} : TRUE

NaN  == [f |-> "nan",  a |-> 0, b |-> 0, d |-> 1, k |-> 1]
PInf == [f |-> "pinf", a |-> 0, b |-> 0, d |-> 1, k |-> 1]
NInf == [f |-> "ninf", a |-> 0, b |-> 0, d |-> 1, k |-> 1]

\* The normal form of (a + b * sqrt(k)) / d, for d # 0 and k >= 1.
Fin(a, b, d, k) ==
    LET Lowest(a1, b1, k1, g) ==
            [f |-> "fin",
             a |-> IF d < 0 THEN -(a1 \div g) ELSE a1 \div g,
             b |-> IF d < 0 THEN -(b1 \div g) ELSE b1 \div g,
             d |-> Abs(d) \div g, k |-> k1]
        Reduced(a1, b1, k1) ==
            Lowest(a1, b1, k1, GCD(GCD(Abs(a1), Abs(b1)), Abs(d)))
        Extracted(s, k1) ==
            Reduced(IF k1 = 1 THEN a + b * s ELSE a,
                    IF k1 = 1 THEN 0 ELSE b * s, k1)
        Squared(s) == Extracted(s, IF b = 0 THEN 1 ELSE k \div (s * s))
    IN  Squared(IF b = 0 THEN 1 ELSE SquarePart(k))

I(n) == [f |-> "fin", a |-> n, b |-> 0, d |-> 1, k |-> 1]

Q(n, d) == Fin(n, 0, d, 1)

Zero == I(0)

One == I(1)

IsFin(x) == x.f = "fin"

IsNaN(x) == x.f = "nan"

IsRational(x) == x.f = "fin" /\ x.b = 0

\* The sign of a + b * sqrt(k), k square-free; squares are formed only when
\* the integer bounds of sqrt(k) do not already decide it.
SignSurd(a, b, k) ==
    IF b = 0 THEN Sgn(a)
    ELSE IF a = 0 \/ Sgn(a) = Sgn(b) THEN Sgn(b)
    ELSE LET r == ISqrt(k, 1, k)
         IN  IF Abs(a) <= Abs(b) * r THEN Sgn(b)
             ELSE IF Abs(a) >= Abs(b) * (r + 1) THEN Sgn(a)
             ELSE IF a * a > b * b * k THEN Sgn(a) ELSE Sgn(b)

\* -1, 0, 1; NaN has sign 0 here and is excluded by the comparisons below.
Sign(x) ==
    CASE x.f = "fin"  -> SignSurd(x.a, x.b, x.k)
      [] x.f = "pinf" -> 1
      [] x.f = "ninf" -> -1
      [] x.f = "nan"  -> 0

IsZero(x) == x.f = "fin" /\ x.a = 0 /\ x.b = 0

\* The radicand of a sum or product of two finite numbers of one field.
Radicand(x, y) ==
    IF x.b = 0 THEN y.k
    ELSE IF y.b = 0 \/ y.k = x.k THEN x.k
    ELSE OutsideField

Neg(x) ==
    CASE x.f = "fin"  -> [x EXCEPT !.a = -x.a, !.b = -x.b]
      [] x.f = "pinf" -> NInf
      [] x.f = "ninf" -> PInf
      [] x.f = "nan"  -> NaN

Add(x, y) ==
    IF x.f = "nan" \/ y.f = "nan" THEN NaN
    ELSE IF x.f # "fin" THEN (IF y.f # "fin" /\ y.f # x.f THEN NaN ELSE x)
    ELSE IF y.f # "fin" THEN y
    ELSE Fin(x.a * y.d + y.a * x.d, x.b * y.d + y.b * x.d, x.d * y.d,
             Radicand(x, y))

Sub(x, y) == Add(x, Neg(y))

SignedInf(s) == IF s > 0 THEN PInf ELSE NInf

\* Two surds of different fields multiply to a surd of a third field only
\* when neither has a rational part.
Mul(x, y) ==
    IF x.f = "nan" \/ y.f = "nan" THEN NaN
    ELSE IF x.f # "fin" \/ y.f # "fin"
         THEN (IF IsZero(x) \/ IsZero(y) THEN NaN
               ELSE SignedInf(Sign(x) * Sign(y)))
    ELSE IF x.b # 0 /\ y.b # 0 /\ x.k # y.k
         THEN Fin(IF x.a = 0 /\ y.a = 0 THEN 0 ELSE OutsideField,
                  x.b * y.b, x.d * y.d, x.k * y.k)
    ELSE Fin(x.a * y.a + x.b * y.b * Radicand(x, y), x.a * y.b + x.b * y.a,
             x.d * y.d, Radicand(x, y))

\* 1 / y; for a finite y # 0 it is d (a - b sqrt k) / (a^2 - b^2 k).
Inv(y) ==
    IF y.f = "nan" THEN NaN
    ELSE IF y.f # "fin" THEN Zero
    ELSE IF IsZero(y) THEN PInf
    ELSE Fin(y.d * y.a, -(y.d * y.b), y.a * y.a - y.b * y.b * y.k, y.k)

\* x / y: 0 / 0 and inf / inf are NaN, a nonzero x / 0 is an infinity.
Div(x, y) == Mul(x, Inv(y))

\* The IEEE comparisons: every comparison with NaN is false, and so is the
\* comparison of an infinity with itself, whose difference is NaN.
Lt(x, y) == Sign(Sub(x, y)) < 0

Gt(x, y) == Lt(y, x)

Eq(x, y) == x.f # "nan" /\ y.f # "nan" /\ x = y

Le(x, y) == Lt(x, y) \/ Eq(x, y)

Ge(x, y) == Le(y, x)

AbsF(x) == IF Sign(x) < 0 THEN Neg(x) ELSE x

\* f32::sqrt of a rational: sqrt(a / d) = sqrt(a * d) / d; NaN below zero.
Sqrt(x) ==
    CASE x.f = "nan"  -> NaN
      [] x.f = "ninf" -> NaN
      [] x.f = "pinf" -> PInf
      [] x.f = "fin"  ->
           IF x.b # 0 THEN OutsideField
           ELSE IF x.a < 0 THEN NaN
           ELSE IF x.a = 0 THEN Zero
           ELSE Fin(0, 1, x.d, x.a * x.d)

-----------------------------------------------------------------------------
(* A let statement of the code.  Let([x \in {e} |-> body]) is body with x *)
(* bound to the value of e, which is computed once, when the statement     *)
(* runs.                                                                   *)

Let(f) == f[CHOOSE v \in DOMAIN f : TRUE]

-----------------------------------------------------------------------------
(* mini_math vectors and points: triples of numbers.                       *)

\* Vector3::new(f[1], f[2], f[3])
Vector3(f) == <<f[1], f[2], f[3]>>

P3(t) == Vector3([i \in 1 .. 3 |-> I(t[i])])

VAdd(u, v) == Vector3([i \in 1 .. 3 |-> Add(u[i], v[i])])

VSub(u, v) == Vector3([i \in 1 .. 3 |-> Sub(u[i], v[i])])

VScale(v, s) == Vector3([i \in 1 .. 3 |-> Mul(v[i], s)])

VDiv(v, s) == Vector3([i \in 1 .. 3 |-> Div(v[i], s)])

Dot(u, v) ==
    LET Sum(m) == Add(Add(m[1], m[2]), m[3])
    IN  Sum(Vector3([i \in 1 .. 3 |-> Mul(u[i], v[i])]))

\* Component i of u x v is u[i+1] v[i+2] - u[i+2] v[i+1], indices cyclic.
Cross(u, v) ==
    Vector3([i \in 1 .. 3 |->
        Sub(Mul(u[(i % 3) + 1], v[((i + 1) % 3) + 1]),
            Mul(u[((i + 1) % 3) + 1], v[(i % 3) + 1]))])

MagnitudeSquared(v) == Dot(v, v)

Magnitude(v) == Sqrt(MagnitudeSquared(v))

Normalized(v) == VDiv(v, Magnitude(v))

\* std::f32::EPSILON = 2^-23
EPSILON == Q(1, 8388608)

-----------------------------------------------------------------------------
(* plane.rs                                                                *)

Plane_new(normal, d) == [normal |-> normal, d |-> d]

Plane_from_points(p0, p1, p2) ==
    Let([normal \in {Normalized(Cross(VSub(p1, p0), VSub(p1, p2)))} |->
    Let([d \in {Neg(Dot(p1, normal))} |->
    [normal |-> normal, d |-> d]])])

Plane_from_point_and_normal(p, normal) ==
    [normal |-> normal, d |-> Dot(p, normal)]

Plane_distance(plane, p) == Sub(Dot(plane.normal, p), plane.d)

Plane_point_closest_to(plane, p) ==
    Let([distance \in {Plane_distance(plane, p)} |->
    VSub(p, VScale(plane.normal, distance))])

Plane_from_Triangle(t) == Plane_from_points(t.a, t.b, t.c)

\* distance.rs, impl Distance<Point> for Plane
Plane_distance_Point(self, p) == Sub(Dot(self.normal, p), self.d)

-----------------------------------------------------------------------------
(* triangle.rs                                                             *)

Triangle_barycentric_coordinates(t, p) ==
    Let([e0 \in {VSub(t.b, t.a)} |->
    Let([e1 \in {VSub(t.c, t.a)} |->
    Let([e2 \in {VSub(p, t.a)} |->
    Let([d00 \in {Dot(e0, e0)} |->
    Let([d01 \in {Dot(e0, e1)} |->
    Let([d11 \in {Dot(e1, e1)} |->
    Let([d20 \in {Dot(e2, e0)} |->
    Let([d21 \in {Dot(e2, e1)} |->
    Let([denom \in {Div(One, Sub(Mul(d00, d11), Mul(d01, d01)))} |->
    Let([v \in {Mul(Sub(Mul(d11, d20), Mul(d01, d21)), denom)} |->
    Let([w \in {Mul(Sub(Mul(d00, d21), Mul(d01, d20)), denom)} |->
    Let([u \in {Sub(Sub(One, v), w)} |->
    <<u, v, w>>])])])])])])])])])])])])

\* Faulty variant: a point on an edge is rejected as well.
Triangle_coplanar_point_inside_EdgesOutside(t, p) ==
    Let([plane \in {Plane_from_Triangle(t)} |->
    IF Ge(Dot(plane.normal, Cross(VSub(t.b, t.a), VSub(p, t.a))), Zero)
    THEN FALSE
    ELSE IF Ge(Dot(plane.normal, Cross(VSub(t.c, t.b), VSub(p, t.b))), Zero)
    THEN FALSE
    ELSE IF Ge(Dot(plane.normal, Cross(VSub(t.a, t.c), VSub(p, t.c))), Zero)
    THEN FALSE
    ELSE TRUE])

Triangle_coplanar_point_inside(t, p) ==
    Let([plane \in {Plane_from_Triangle(t)} |->
    IF Gt(Dot(plane.normal, Cross(VSub(t.b, t.a), VSub(p, t.a))), Zero)
    THEN FALSE
    ELSE IF Gt(Dot(plane.normal, Cross(VSub(t.c, t.b), VSub(p, t.b))), Zero)
    THEN FALSE
    ELSE IF Gt(Dot(plane.normal, Cross(VSub(t.a, t.c), VSub(p, t.c))), Zero)
    THEN FALSE
    ELSE TRUE])

Triangle_point_closest_to_edge(e0, e1, p) ==
    Let([edge \in {VSub(e1, e0)} |->
    Let([edge_length \in {Magnitude(edge)} |->
    Let([edge_direction \in {VDiv(edge, edge_length)} |->
    Let([diff \in {VSub(p, e0)} |->
    Let([d \in {Dot(diff, edge_direction)} |->
    IF Lt(d, Zero) THEN e0
    ELSE IF Gt(d, edge_length) THEN e1
    ELSE VAdd(e0, VScale(edge_direction, d))])])])])])

Triangle_point_closest_to(t, p) ==
    Let([plane \in {Plane_from_Triangle(t)} |->
    Let([q \in {Plane_point_closest_to(plane, p)} |->
    Let([coordinates \in {Triangle_barycentric_coordinates(t, q)} |->
    IF /\ Ge(coordinates[1], Zero)
       /\ Ge(coordinates[2], Zero)
       /\ Ge(coordinates[3], Zero)
    THEN q
    ELSE
    Let([p0 \in {Triangle_point_closest_to_edge(t.a, t.b, p)} |->
    Let([p1 \in {Triangle_point_closest_to_edge(t.b, t.c, p)} |->
    Let([p2 \in {Triangle_point_closest_to_edge(t.c, t.a, p)} |->
    Let([d0 \in {MagnitudeSquared(VSub(p0, p))} |->
    Let([d1 \in {MagnitudeSquared(VSub(p1, p))} |->
    Let([d2 \in {MagnitudeSquared(VSub(p2, p))} |->
    IF Lt(d0, d1) /\ Lt(d0, d2) THEN p0
    ELSE IF Lt(d1, d0) /\ Lt(d1, d2) THEN p1
    ELSE p2])])])])])])])])])

-----------------------------------------------------------------------------
(* collision.rs                                                            *)

None == [kind |-> "None"]

Contact_new(point, normal, overlap) ==
    [kind |-> "Some", point |-> point, normal |-> normal, overlap |-> overlap]

\* Faulty variant: the contact point is put on the receiver's surface.
Sphere_collides_Sphere_PointOnSelf(self, sphere) ==
    Let([combined_radius \in {Add(self.radius, sphere.radius)} |->
    Let([diff \in {VSub(self.center, sphere.center)} |->
    Let([distance_squared \in {MagnitudeSquared(diff)} |->
    IF Gt(distance_squared, Mul(combined_radius, combined_radius))
    THEN None
    ELSE
    Let([distance \in {Sqrt(distance_squared)} |->
    Let([normal \in {VDiv(diff, distance)} |->
    Contact_new(VAdd(self.center, VScale(normal, self.radius)),
                normal,
                Sub(combined_radius, distance))])])])])])

Sphere_collides_Sphere(self, sphere) ==
    Let([combined_radius \in {Add(self.radius, sphere.radius)} |->
    Let([diff \in {VSub(self.center, sphere.center)} |->
    Let([distance_squared \in {MagnitudeSquared(diff)} |->
    IF Gt(distance_squared, Mul(combined_radius, combined_radius))
    THEN None
    ELSE
    Let([distance \in {Sqrt(distance_squared)} |->
    Let([normal \in {VDiv(diff, distance)} |->
    Contact_new(VAdd(sphere.center, VScale(normal, sphere.radius)),
                normal,
                Sub(combined_radius, distance))])])])])])

\* Faulty variant: the second rejection, of a gap wider than the radius, is missing.
Sphere_collides_Triangle_NoGapTest(self, triangle) ==
    Let([plane \in {Plane_from_Triangle(triangle)} |->
    Let([p \in {Plane_point_closest_to(plane, self.center)} |->
    Let([distance_from_plane_squared \in {MagnitudeSquared(VSub(p, self.center))} |->
    IF Gt(distance_from_plane_squared, Mul(self.radius, self.radius))
    THEN None
    ELSE
    Let([q \in {Triangle_point_closest_to(triangle, self.center)} |->
    Let([diff \in {VSub(q, self.center)} |->
    Let([overlap \in {Sub(self.radius, Magnitude(diff))} |->
    Contact_new(q, plane.normal, overlap)])])])])])])

Sphere_collides_Triangle(self, triangle) ==
    Let([plane \in {Plane_from_Triangle(triangle)} |->
    Let([p \in {Plane_point_closest_to(plane, self.center)} |->
    Let([distance_from_plane_squared \in {MagnitudeSquared(VSub(p, self.center))} |->
    IF Gt(distance_from_plane_squared, Mul(self.radius, self.radius))
    THEN None
    ELSE
    Let([q \in {Triangle_point_closest_to(triangle, self.center)} |->
    Let([diff \in {VSub(q, self.center)} |->
    Let([overlap \in {Sub(self.radius, Magnitude(diff))} |->
    IF Lt(overlap, Zero) THEN None
    ELSE Contact_new(q, plane.normal, overlap)])])])])])])

Ray_collides_Triangle(self, triangle) ==
    Let([plane \in {Plane_from_Triangle(triangle)} |->
    Let([n_dot_r \in {Dot(plane.normal, self.direction)} |->
    IF Lt(AbsF(n_dot_r), EPSILON) THEN None
    ELSE
    Let([d \in {Dot(plane.normal, triangle.a)} |->
    Let([e \in {Dot(plane.normal, self.origin)} |->
    Let([t \in {Div(Add(e, d), n_dot_r)} |->
    IF Gt(t, Zero) THEN None
    ELSE
    Let([intersection_point \in {VAdd(self.origin, VScale(self.direction, Neg(t)))} |->
    IF Triangle_coplanar_point_inside(triangle, intersection_point)
    THEN Contact_new(intersection_point, plane.normal, Zero)
    ELSE None])])])])])])

LineSegment_collides_Triangle(self, triangle) ==
    Let([plane \in {Plane_from_Triangle(triangle)} |->
    Let([length \in {Magnitude(VSub(self.end, self.start))} |->
    Let([direction \in {VDiv(VSub(self.end, self.start), length)} |->
    Let([n_dot_r \in {Dot(plane.normal, direction)} |->
    IF Lt(AbsF(n_dot_r), EPSILON) THEN None
    ELSE
    Let([d \in {Dot(plane.normal, triangle.a)} |->
    Let([e \in {Dot(plane.normal, self.start)} |->
    Let([t \in {Div(Add(e, d), n_dot_r)} |->
    IF Gt(t, Zero) \/ Lt(t, Neg(length)) THEN None
    ELSE
    Let([intersection_point \in {VAdd(self.start, VScale(direction, Neg(t)))} |->
    IF Triangle_coplanar_point_inside(triangle, intersection_point)
    THEN Contact_new(intersection_point, plane.normal, Zero)
    ELSE None])])])])])])])])

-----------------------------------------------------------------------------
(* intersection.rs                                                         *)

Triangle_intersects_LineSegment(self, line) ==
    Let([plane \in {Plane_from_Triangle(self)} |->
    Let([length \in {Magnitude(VSub(line.end, line.start))} |->
    Let([direction \in {VDiv(VSub(line.end, line.start), length)} |->
    Let([n_dot_r \in {Dot(plane.normal, direction)} |->
    IF Lt(AbsF(n_dot_r), EPSILON) THEN FALSE
    ELSE
    Let([d \in {Dot(plane.normal, self.a)} |->
    Let([e \in {Dot(plane.normal, line.start)} |->
    Let([t \in {Div(Add(e, d), n_dot_r)} |->
    IF Gt(t, Zero) \/ Lt(t, Neg(length)) THEN FALSE
    ELSE
    Let([intersection_point \in {VAdd(line.start, VScale(direction, Neg(t)))} |->
    Triangle_coplanar_point_inside(self, intersection_point)])])])])])])])])

LineSegment_intersects_Triangle(self, triangle) ==
    Triangle_intersects_LineSegment(triangle, self)

Sphere_intersects_Ray(self, ray) ==
    Let([a \in {MagnitudeSquared(ray.direction)} |->
    Let([b \in {Mul(I(2), Sub(Dot(ray.origin, ray.direction),
                              Dot(ray.direction, self.center)))} |->
    Let([c \in {Sub(MagnitudeSquared(VSub(self.center, ray.origin)),
                    Mul(self.radius, self.radius))} |->
    Ge(Sub(Mul(b, b), Mul(Mul(I(4), a), c)), Zero)])])])

Ray_intersects_Sphere(self, sphere) == Sphere_intersects_Ray(sphere, self)

Plane_intersects_Ray(self, ray) ==
    Let([t \in {Div(Neg(Add(self.d, Dot(ray.origin, self.normal))),
                    Dot(ray.direction, self.normal))} |->
    Ge(t, Zero)])

Ray_intersects_Plane(self, plane) == Plane_intersects_Ray(plane, self)

\* Faulty variant: the test against the segment's end is left out, so the
\* projection runs past the end.
Sphere_intersects_LineSegment_NoEndTest(self, line) ==
    Let([direction \in {VSub(line.end, line.start)} |->
    Let([closest \in {
        Let([t \in {Dot(direction, VSub(self.center, line.start))} |->
        IF Le(t, Zero) THEN line.start
        ELSE
        Let([length_squared \in {MagnitudeSquared(direction)} |->
        IF Gt(length_squared, Zero)
        THEN VAdd(line.start, VScale(direction, Div(t, length_squared)))
        ELSE line.start])])} |->
    Le(Sub(MagnitudeSquared(VSub(self.center, closest)),
           Mul(self.radius, self.radius)), Zero)])])

Sphere_intersects_LineSegment(self, line) ==
    Let([direction \in {VSub(line.end, line.start)} |->
    Let([closest \in {
        IF Ge(Dot(direction, VSub(self.center, line.end)), Zero) THEN line.end
        ELSE
        Let([t \in {Dot(direction, VSub(self.center, line.start))} |->
        IF Le(t, Zero) THEN line.start
        ELSE
        Let([length_squared \in {MagnitudeSquared(direction)} |->
        IF Gt(length_squared, Zero)
        THEN VAdd(line.start, VScale(direction, Div(t, length_squared)))
        ELSE line.start])])} |->
    Le(Sub(MagnitudeSquared(VSub(self.center, closest)),
           Mul(self.radius, self.radius)), Zero)])])

LineSegment_intersects_Sphere(self, sphere) ==
    Sphere_intersects_LineSegment(sphere, self)

Plane_intersects_Sphere(self, sphere) ==
    Le(AbsF(Plane_distance(self, sphere.center)), sphere.radius)

Sphere_intersects_Plane(self, plane) == Plane_intersects_Sphere(plane, self)

\* Faulty variant: the argument's radius is left out of the combined radius.
Sphere_intersects_Sphere_OwnRadius(self, sphere) ==
    Let([combined_radius \in {self.radius} |->
    Le(MagnitudeSquared(VSub(self.center, sphere.center)),
       Mul(combined_radius, combined_radius))])

Sphere_intersects_Sphere(self, sphere) ==
    Let([combined_radius \in {Add(self.radius, sphere.radius)} |->
    Le(MagnitudeSquared(VSub(self.center, sphere.center)),
       Mul(combined_radius, combined_radius))])

Triangle_intersects_Sphere(self, sphere) ==
    Let([plane \in {Plane_from_Triangle(self)} |->
    Let([p \in {Plane_point_closest_to(plane, sphere.center)} |->
    Let([distance_from_plane_squared \in
            {MagnitudeSquared(VSub(p, sphere.center))} |->
    IF Gt(distance_from_plane_squared, Mul(sphere.radius, sphere.radius))
    THEN FALSE
    ELSE
    Let([radius_on_plane \in
            {Sqrt(Sub(Mul(sphere.radius, sphere.radius),
                      distance_from_plane_squared))} |->
    Let([coordinates \in {Triangle_barycentric_coordinates(self, p)} |->
    /\ Gt(coordinates[1], Neg(radius_on_plane))
    /\ Gt(coordinates[2], Neg(radius_on_plane))
    /\ Gt(coordinates[3], Neg(radius_on_plane))])])])])])

Sphere_intersects_Triangle(self, triangle) ==
    Triangle_intersects_Sphere(triangle, self)

Triangle_intersects_Ray(self, ray) ==
    Let([plane \in {Plane_from_Triangle(self)} |->
    Let([n_dot_r \in {Dot(plane.normal, ray.direction)} |->
    IF Lt(AbsF(n_dot_r), EPSILON) THEN FALSE
    ELSE
    Let([d \in {Dot(plane.normal, self.a)} |->
    Let([e \in {Dot(plane.normal, ray.origin)} |->
    Let([t \in {Div(Add(e, d), n_dot_r)} |->
    IF Gt(t, Zero) THEN FALSE
    ELSE
    Let([intersection_point \in
            {VAdd(ray.origin, VScale(ray.direction, Neg(t)))} |->
    Triangle_coplanar_point_inside(self, intersection_point)])])])])])])

Ray_intersects_Triangle(self, triangle) == Triangle_intersects_Ray(triangle, self)

-----------------------------------------------------------------------------
(* line.rs                                                                 *)

Line_new(point, direction) == [point |-> point, direction |-> direction]

Line_from_points(start, end) ==
    [point |-> start, direction |-> Normalized(VSub(end, start))]

-----------------------------------------------------------------------------
(* closest_point.rs                                                        *)

Line_closest_point_Point(self, other) ==
    Let([dot \in {Dot(self.direction, VSub(other, self.point))} |->
    VAdd(self.point, VScale(self.direction, dot))])

\* Faulty variant: d enters the parameter with the opposite sign.
Line_closest_point_Line_SignSlip(self, other) ==
    Let([w \in {VSub(self.point, other.point)} |->
    Let([b \in {Dot(self.direction, other.direction)} |->
    Let([d \in {Dot(self.direction, w)} |->
    Let([e \in {Dot(other.direction, w)} |->
    Let([d_p \in {Sub(One, Mul(b, b))} |->
    IF Lt(d_p, EPSILON) THEN self.point
    ELSE
    Let([sc \in {Div(Add(Mul(b, e), d), d_p)} |->
    VAdd(self.point, VScale(self.direction, sc))])])])])])])

\* Faulty variant: parallel lines are not told apart before the division.
Line_closest_point_Line_NoParallelTest(self, other) ==
    Let([w \in {VSub(self.point, other.point)} |->
    Let([b \in {Dot(self.direction, other.direction)} |->
    Let([d \in {Dot(self.direction, w)} |->
    Let([e \in {Dot(other.direction, w)} |->
    Let([d_p \in {Sub(One, Mul(b, b))} |->
    Let([sc \in {Div(Sub(Mul(b, e), d), d_p)} |->
    VAdd(self.point, VScale(self.direction, sc))])])])])])])

Line_closest_point_Line(self, other) ==
    Let([w \in {VSub(self.point, other.point)} |->
    Let([b \in {Dot(self.direction, other.direction)} |->
    Let([d \in {Dot(self.direction, w)} |->
    Let([e \in {Dot(other.direction, w)} |->
    Let([d_p \in {Sub(One, Mul(b, b))} |->
    IF Lt(d_p, EPSILON) THEN self.point
    ELSE
    Let([sc \in {Div(Sub(Mul(b, e), d), d_p)} |->
    VAdd(self.point, VScale(self.direction, sc))])])])])])])

\* Faulty variant: points behind the origin are not clipped to it.
Ray_closest_point_Point_Unclipped(self, other) ==
    Let([dot \in {Dot(VSub(other, self.origin), self.direction)} |->
    VAdd(self.origin, VScale(self.direction, dot))])

Ray_closest_point_Point(self, other) ==
    Let([dot \in {Dot(VSub(other, self.origin), self.direction)} |->
    IF Le(dot, Zero) THEN self.origin
    ELSE VAdd(self.origin, VScale(self.direction, dot))])

Ray_closest_point_Line(self, other) ==
    Let([p \in {Line_closest_point_Line(
                    Line_new(self.origin, self.direction), other)} |->
    Ray_closest_point_Point(self, p)])

Line_closest_point_Ray(self, other) ==
    Line_closest_point_Point(self, Ray_closest_point_Line(other, self))

\* f32::min: the other operand when one is NaN.
Min(x, y) == IF IsNaN(x) THEN y ELSE IF IsNaN(y) THEN x
             ELSE IF Lt(y, x) THEN y ELSE x

\* Faulty variant: the parameter is not clamped to the segment's length.
LineSegment_closest_point_Point_NoEndClamp(self, other) ==
    Let([length \in {Magnitude(VSub(self.end, self.start))} |->
    Let([direction \in {VDiv(VSub(self.end, self.start), length)} |->
    Let([dot \in {Dot(VSub(other, self.start), direction)} |->
    IF Lt(dot, Zero) THEN self.start
    ELSE VAdd(self.start, VScale(direction, dot))])])])

LineSegment_closest_point_Point(self, other) ==
    Let([length \in {Magnitude(VSub(self.end, self.start))} |->
    Let([direction \in {VDiv(VSub(self.end, self.start), length)} |->
    Let([dot \in {Dot(VSub(other, self.start), direction)} |->
    IF Lt(dot, Zero) THEN self.start
    ELSE VAdd(self.start, VScale(direction, Min(dot, length)))])])])

\* Faulty variant: the point of the carrier line is not moved onto the segment
\* before it is projected back onto the ray.
Ray_closest_point_LineSegment_NoSegmentClamp(self, other) ==
    Let([p0 \in {Line_closest_point_Line(
                     Line_new(self.origin, self.direction),
                     Line_from_points(other.start, other.end))} |->
    Ray_closest_point_Point(self, p0)])

Ray_closest_point_LineSegment(self, other) ==
    Let([p0 \in {Line_closest_point_Line(
                     Line_new(self.origin, self.direction),
                     Line_from_points(other.start, other.end))} |->
    Let([p \in {LineSegment_closest_point_Point(other, p0)} |->
    Ray_closest_point_Point(self, p)])])

LineSegment_closest_point_Ray(self, other) ==
    LineSegment_closest_point_Point(self,
        Ray_closest_point_LineSegment(other, self))

Ray_closest_point_Ray(self, other) ==
    Let([p0 \in {Line_closest_point_Line(
                     Line_new(other.origin, other.direction),
                     Line_new(self.origin, self.direction))} |->
    Let([p \in {Ray_closest_point_Point(other, p0)} |->
    Ray_closest_point_Point(self, p)])])

LineSegment_closest_point_Line(self, other) ==
    Let([p \in {Line_closest_point_Line(
                    other, Line_from_points(self.start, self.end))} |->
    LineSegment_closest_point_Point(self, p)])

LineSegment_closest_point_LineSegment(self, other) ==
    Let([p0 \in {Line_closest_point_Line(
                     Line_from_points(other.start, other.end),
                     Line_from_points(self.start, self.end))} |->
    Let([p \in {LineSegment_closest_point_Point(other, p0)} |->
    LineSegment_closest_point_Point(self, p)])])

Plane_closest_point_Point(self, other) ==
    Let([distance \in {Plane_distance_Point(self, other)} |->
    VSub(other, VScale(self.normal, distance))])

Triangle_closest_point_Point(self, other) ==
    Let([plane \in {Plane_from_Triangle(self)} |->
    Let([q \in {Plane_closest_point_Point(plane, other)} |->
    Let([coordinates \in {Triangle_barycentric_coordinates(self, q)} |->
    IF /\ Ge(coordinates[1], Zero)
       /\ Ge(coordinates[2], Zero)
       /\ Ge(coordinates[3], Zero)
    THEN q
    ELSE
    Let([p0 \in {LineSegment_closest_point_Point(
                     [start |-> self.a, end |-> self.b], other)} |->
    Let([p1 \in {LineSegment_closest_point_Point(
                     [start |-> self.b, end |-> self.c], other)} |->
    Let([p2 \in {LineSegment_closest_point_Point(
                     [start |-> self.c, end |-> self.a], other)} |->
    Let([d0 \in {MagnitudeSquared(VSub(p0, other))} |->
    Let([d1 \in {MagnitudeSquared(VSub(p1, other))} |->
    Let([d2 \in {MagnitudeSquared(VSub(p2, other))} |->
    IF Lt(d0, d1) /\ Lt(d0, d2) THEN p0
    ELSE IF Lt(d1, d0) /\ Lt(d1, d2) THEN p1
    ELSE p2])])])])])])])])])

-----------------------------------------------------------------------------
(* distance.rs                                                             *)

Line_distance_Point(self, p) ==
    Let([cross \in {Cross(self.direction, VSub(p, self.point))} |->
    Magnitude(cross)])

\* Faulty variant: for parallel lines the parameter along the second line
\* is left at zero.
Line_distance_Line_NoParallelParameter(self, line) ==
    Let([w \in {VSub(self.point, line.point)} |->
    Let([b \in {Dot(self.direction, line.direction)} |->
    Let([d \in {Dot(self.direction, w)} |->
    Let([e \in {Dot(line.direction, w)} |->
    Let([d_p \in {Sub(One, Mul(b, b))} |->
    Let([sc_tc \in {IF Lt(d_p, EPSILON)
                    THEN <<Zero, Zero>>
                    ELSE <<Div(Sub(Mul(b, e), d), d_p),
                           Div(Sub(e, Mul(b, d)), d_p)>>} |->
    Let([p \in {VSub(VAdd(w, VScale(self.direction, sc_tc[1])),
                     VScale(line.direction, sc_tc[2]))} |->
    Magnitude(p)])])])])])])])

Line_distance_Line(self, line) ==
    Let([w \in {VSub(self.point, line.point)} |->
    Let([b \in {Dot(self.direction, line.direction)} |->
    Let([d \in {Dot(self.direction, w)} |->
    Let([e \in {Dot(line.direction, w)} |->
    Let([d_p \in {Sub(One, Mul(b, b))} |->
    Let([sc_tc \in {IF Lt(d_p, EPSILON)
                    THEN <<Zero, IF Gt(b, One) THEN Div(d, b) ELSE e>>
                    ELSE <<Div(Sub(Mul(b, e), d), d_p),
                           Div(Sub(e, Mul(b, d)), d_p)>>} |->
    Let([p \in {VSub(VAdd(w, VScale(self.direction, sc_tc[1])),
                     VScale(line.direction, sc_tc[2]))} |->
    Magnitude(p)])])])])])])])

LineSegment_distance_Point(self, p) ==
    Let([q \in {LineSegment_closest_point_Point(self, p)} |->
    Magnitude(VSub(p, q))])

\* Faulty variant: the distance is measured from the first segment's start.
LineSegment_distance_LineSegment_FromStart(self, l) ==
    LineSegment_distance_Point(l, self.start)

LineSegment_distance_LineSegment(self, l) ==
    LineSegment_distance_Point(self,
        LineSegment_closest_point_LineSegment(l, self))

Ray_distance_Point(self, p) ==
    Let([q \in {Ray_closest_point_Point(self, p)} |->
    Magnitude(VSub(p, q))])

Ray_distance_Ray(self, r) ==
    Ray_distance_Point(self, Ray_closest_point_Ray(r, self))

Ray_distance_Line(self, l) ==
    Ray_distance_Point(self, Line_closest_point_Ray(l, self))

Ray_distance_LineSegment(self, l) ==
    Ray_distance_Point(self, LineSegment_closest_point_Ray(l, self))

Sphere_distance_Point(self, p) ==
    Sub(Magnitude(VSub(p, self.center)), self.radius)

Capsule_distance_Point(self, p) ==
    Sub(LineSegment_distance_Point(self.axis, p), self.radius)

-----------------------------------------------------------------------------
(* Shape constructors taking integer coordinates.                          *)

Sphere_new(c, r) == [center |-> P3(c), radius |-> I(r)]

Triangle_new(a, b, c) == [a |-> P3(a), b |-> P3(b), c |-> P3(c)]

Ray_new(o, w) == [origin |-> P3(o), direction |-> Normalized(P3(w))]

LineSegment_new(s, e) == [start |-> P3(s), end |-> P3(e)]

Capsule_new(a, b, r) == [axis |-> LineSegment_new(a, b), radius |-> I(r)]

-----------------------------------------------------------------------------
(* The inputs: shapes on a small integer lattice.                          *)

MaxCoord == 1

MaxRadius == 2

MaxShift == 1

Coords == -MaxCoord .. MaxCoord

Lattice == Coords \X Coords \X Coords

Translate(t, s) == <<t[1] + s[1], t[2] + s[2], t[3] + s[3]>>

\* The receiver spheres, and the spheres passed as argument.
Spheres == {Sphere_new(c, r) : c \in Lattice, r \in 0 .. MaxRadius}

ArgCenters == {<<0, 0, 0>>, <<1, 0, 0>>, <<0, -1, 1>>, <<2, 2, 1>>}

ArgSpheres == {Sphere_new(c, r) : c \in ArgCenters, r \in 0 .. MaxRadius}

\* Non-degenerate triangles: the triangles of the repository's tests, one of
\* them with the opposite winding, an upright one and two tilted ones, each
\* moved along the y axis so that its plane leaves the origin.
BaseTriangles ==
    { <<<<-1, 0, -1>>, <<1, 0, -1>>, <<0, 0, 1>>>>,
      <<<<1, 0, -1>>, <<-1, 0, -1>>, <<0, 0, 1>>>>,
      <<<<-1, 0, 0>>, <<1, 0, 0>>, <<0, 0, 1>>>>,
      <<<<-1, -1, 0>>, <<1, -1, 0>>, <<0, 1, 0>>>>,
      <<<<1, -1, 0>>, <<0, 1, -1>>, <<-1, 0, 1>>>>,
      <<<<1, 0, 0>>, <<0, 1, 0>>, <<0, 0, 1>>>> }

Shifts == {<<0, s, 0>> : s \in 0 .. MaxShift}

Triangles ==
    {Triangle_new(Translate(t[1], s), Translate(t[2], s), Translate(t[3], s)) :
        t \in BaseTriangles, s \in Shifts}

\* Rays with unit directions, given as the integer vectors they normalise.
RayDirections ==
    { <<0, -1, 0>>, <<0, 1, 0>>, <<0, 0, 1>>, <<1, 2, 0>>,
      <<-1, -1, -1>>, <<1, 0, -1>> }

Rays == {Ray_new(o, w) : o \in Lattice, w \in RayDirections}

\* Segments from a lattice point; the zero displacement gives start = end.
SegmentDisplacements ==
    { <<0, 0, 0>>, <<0, -1, 0>>, <<0, -3, 0>>, <<0, 2, 0>>,
      <<-2, -2, -2>>, <<1, 0, -2>> }

LineSegments ==
    {LineSegment_new(s, Translate(s, v)) : s \in Lattice, v \in SegmentDisplacements}

\* The rays and segments passed as argument.
ArgRays == {Ray_new(o, w) : o \in ArgCenters, w \in RayDirections}

ArgSegments ==
    {LineSegment_new(s, Translate(s, v)) :
        s \in ArgCenters, v \in SegmentDisplacements}

\* Lines with unit directions, given as the integer vectors they normalise;
\* the set holds parallel, anti-parallel, perpendicular and skew pairs.
LineDirections ==
    { <<0, 0, 1>>, <<0, 0, -1>>, <<0, 1, 0>>, <<1, 1, 0>>, <<-1, -1, 0>>,
      <<1, 0, -1>>, <<1, 2, 0>> }

Lines == {Line_new(P3(p), Normalized(P3(w))) : p \in Lattice, w \in LineDirections}

ArgLines ==
    {Line_new(P3(p), Normalized(P3(w))) : p \in ArgCenters, w \in LineDirections}

Capsules ==
    {Capsule_new(s, Translate(s, v), r) :
        s \in ArgCenters, v \in SegmentDisplacements, r \in 0 .. MaxRadius}

Points == {P3(p) : p \in Lattice}

\* Planes built by each constructor: Plane::new with a unit normal along an
\* axis and any offset, Plane::from_point_and_normal with a unit normal and
\* a point of the plane, and Plane::from_points with a triangle's corners.
AxisNormals == {<<1, 0, 0>>, <<0, 1, 0>>, <<0, 0, -1>>}

PlaneNormals == AxisNormals \cup {<<1, 1, 0>>, <<1, -1, 1>>}

Planes ==
    {Plane_new(P3(n), I(d)) : n \in AxisNormals, d \in Coords}
        \cup {Plane_from_point_and_normal(P3(p), Normalized(P3(n))) :
                  p \in ArgCenters, n \in PlaneNormals}
        \cup {Plane_from_points(t.a, t.b, t.c) : t \in Triangles}

Call(op, self, rhs) == [op |-> op, self |-> self, rhs |-> rhs]

SphereSphereQuery ==
    \E a \in Spheres, b \in ArgSpheres :
        query = Call("Sphere.collides(Sphere)", a, b)

SphereTriangleQuery ==
    \E a \in Spheres, t \in Triangles :
        query = Call("Sphere.collides(Triangle)", a, t)

RayTriangleQuery ==
    \E r \in Rays, t \in Triangles :
        query = Call("Ray.collides(Triangle)", r, t)

LineSegmentTriangleQuery ==
    \E l \in LineSegments, t \in Triangles :
        query = Call("LineSegment.collides(Triangle)", l, t)

TriangleLineSegmentQuery ==
    \E t \in Triangles, l \in LineSegments :
        query = Call("Triangle.intersects(LineSegment)", t, l)

\* Plane queries: three non-collinear points (the corners of a triangle of
\* Triangles), and which of the three is measured against the plane.
PlaneFromPointsQuery ==
    \E t \in Triangles : query = Call("Plane::from_points", t, 0)

PlaneFromTriangleQuery ==
    \E t \in Triangles : query = Call("Plane::from(&Triangle)", t, 0)

PlaneDistanceQuery ==
    \E t \in Triangles, i \in 1 .. 3 : query = Call("Plane::distance", t, i)

DistancePlanePointQuery ==
    \E t \in Triangles, i \in 1 .. 3 :
        query = Call("Distance<Point> for Plane", t, i)

\* Intersection queries, each pair of shapes in both directions.
SphereIntersectsRayQuery ==
    \E a \in Spheres, b \in ArgRays :
        query = Call("Sphere.intersects(Ray)", a, b)

RayIntersectsSphereQuery ==
    \E a \in Spheres, b \in ArgRays :
        query = Call("Ray.intersects(Sphere)", b, a)

PlaneIntersectsRayQuery ==
    \E a \in Planes, b \in ArgRays :
        query = Call("Plane.intersects(Ray)", a, b)

RayIntersectsPlaneQuery ==
    \E a \in Planes, b \in ArgRays :
        query = Call("Ray.intersects(Plane)", b, a)

SphereIntersectsLineSegmentQuery ==
    \E a \in Spheres, b \in ArgSegments :
        query = Call("Sphere.intersects(LineSegment)", a, b)

LineSegmentIntersectsSphereQuery ==
    \E a \in Spheres, b \in ArgSegments :
        query = Call("LineSegment.intersects(Sphere)", b, a)

PlaneIntersectsSphereQuery ==
    \E a \in Planes, b \in ArgSpheres :
        query = Call("Plane.intersects(Sphere)", a, b)

SphereIntersectsPlaneQuery ==
    \E a \in Planes, b \in ArgSpheres :
        query = Call("Sphere.intersects(Plane)", b, a)

TriangleIntersectsSphereQuery ==
    \E a \in Triangles, b \in ArgSpheres :
        query = Call("Triangle.intersects(Sphere)", a, b)

SphereIntersectsTriangleQuery ==
    \E a \in Triangles, b \in ArgSpheres :
        query = Call("Sphere.intersects(Triangle)", b, a)

TriangleIntersectsRayQuery ==
    \E a \in Triangles, b \in ArgRays :
        query = Call("Triangle.intersects(Ray)", a, b)

RayIntersectsTriangleQuery ==
    \E a \in Triangles, b \in ArgRays :
        query = Call("Ray.intersects(Triangle)", b, a)

TriangleIntersectsLineSegmentQuery ==
    \E a \in Triangles, b \in ArgSegments :
        query = Call("Triangle.intersects(LineSegment)", a, b)

LineSegmentIntersectsTriangleQuery ==
    \E a \in Triangles, b \in ArgSegments :
        query = Call("LineSegment.intersects(Triangle)", b, a)

SphereIntersectsSphereQuery ==
    \E a \in Spheres, b \in ArgSpheres :
        \/ query = Call("Sphere.intersects(Sphere)", a, b)
        \/ query = Call("Sphere.intersects(Sphere)", b, a)

IntersectsQuery ==
    \/ SphereIntersectsRayQuery
    \/ RayIntersectsSphereQuery
    \/ PlaneIntersectsRayQuery
    \/ RayIntersectsPlaneQuery
    \/ SphereIntersectsLineSegmentQuery
    \/ LineSegmentIntersectsSphereQuery
    \/ PlaneIntersectsSphereQuery
    \/ SphereIntersectsPlaneQuery
    \/ TriangleIntersectsSphereQuery
    \/ SphereIntersectsTriangleQuery
    \/ TriangleIntersectsRayQuery
    \/ RayIntersectsTriangleQuery
    \/ TriangleIntersectsLineSegmentQuery
    \/ LineSegmentIntersectsTriangleQuery
    \/ SphereIntersectsSphereQuery

\* Closest-point queries.
TriangleClosestPointPointQuery ==
    \E a \in Triangles, b \in Points :
        query = Call("Triangle.closest_point(Point)", a, b)

TrianglePointClosestToQuery ==
    \E a \in Triangles, b \in Points :
        query = Call("Triangle::point_closest_to", a, b)

LineSegmentClosestPointPointQuery ==
    \E a \in ArgSegments, b \in Points :
        query = Call("LineSegment.closest_point(Point)", a, b)

RayClosestPointPointQuery ==
    \E a \in ArgRays, b \in Points :
        query = Call("Ray.closest_point(Point)", a, b)

LineClosestPointLineQuery ==
    \E a \in Lines, b \in ArgLines :
        query = Call("Line.closest_point(Line)", a, b)

ClosestPointQuery ==
    \/ TriangleClosestPointPointQuery
    \/ TrianglePointClosestToQuery
    \/ LineSegmentClosestPointPointQuery
    \/ RayClosestPointPointQuery
    \/ LineClosestPointLineQuery

\* Distance queries.
LineDistancePointQuery ==
    \E a \in ArgLines, b \in Points :
        query = Call("Line.distance(Point)", a, b)

LineDistanceLineQuery ==
    \E a \in Lines, b \in ArgLines :
        query = Call("Line.distance(Line)", a, b)

LineSegmentDistancePointQuery ==
    \E a \in ArgSegments, b \in Points :
        query = Call("LineSegment.distance(Point)", a, b)

LineSegmentDistanceLineSegmentQuery ==
    \E a \in LineSegments, b \in ArgSegments :
        query = Call("LineSegment.distance(LineSegment)", a, b)

RayDistancePointQuery ==
    \E a \in ArgRays, b \in Points :
        query = Call("Ray.distance(Point)", a, b)

RayDistanceRayQuery ==
    \E a \in ArgRays, b \in ArgRays :
        query = Call("Ray.distance(Ray)", a, b)

RayDistanceLineQuery ==
    \E a \in ArgRays, b \in ArgLines :
        query = Call("Ray.distance(Line)", a, b)

RayDistanceLineSegmentQuery ==
    \E a \in ArgRays, b \in ArgSegments :
        query = Call("Ray.distance(LineSegment)", a, b)

SphereDistancePointQuery ==
    \E a \in ArgSpheres, b \in Points :
        query = Call("Sphere.distance(Point)", a, b)

CapsuleDistancePointQuery ==
    \E a \in Capsules, b \in Points :
        query = Call("Capsule.distance(Point)", a, b)

DistanceQuery ==
    \/ LineDistancePointQuery
    \/ LineDistanceLineQuery
    \/ LineSegmentDistancePointQuery
    \/ LineSegmentDistanceLineSegmentQuery
    \/ RayDistancePointQuery
    \/ RayDistanceRayQuery
    \/ RayDistanceLineQuery
    \/ RayDistanceLineSegmentQuery
    \/ SphereDistancePointQuery
    \/ CapsuleDistancePointQuery

\* Closest-point queries between two lines, rays or segments.
PairOrigins == {<<0, 0, 0>>, <<2, 2, 1>>}

PairRays == {Ray_new(o, w) : o \in PairOrigins, w \in RayDirections}

PairLines ==
    {Line_new(P3(p), Normalized(P3(w))) : p \in PairOrigins, w \in LineDirections}

PairSegments ==
    {LineSegment_new(s, Translate(s, v)) :
        s \in PairOrigins, v \in SegmentDisplacements}

RayClosestPointRayQuery ==
    \E a \in Rays, b \in PairRays :
        query = Call("Ray.closest_point(Ray)", a, b)

RayClosestPointLineQuery ==
    \E a \in Rays, b \in PairLines :
        query = Call("Ray.closest_point(Line)", a, b)

RayClosestPointLineSegmentQuery ==
    \E a \in Rays, b \in PairSegments :
        query = Call("Ray.closest_point(LineSegment)", a, b)

LineSegmentClosestPointLineSegmentQuery ==
    \E a \in LineSegments, b \in PairSegments :
        query = Call("LineSegment.closest_point(LineSegment)", a, b)

ClosestPairQuery ==
    \/ RayClosestPointRayQuery
    \/ RayClosestPointLineQuery
    \/ RayClosestPointLineSegmentQuery
    \/ LineSegmentClosestPointLineSegmentQuery

\* Points of a triangle's plane: a + (i/2)(b - a) + (j/2)(c - a), which gives
\* the corners, edge midpoints, interior points and points outside each edge.
HalfSteps == (0 - MaxCoord) .. (2 + MaxCoord)

PlanePoint(t, i, j) ==
    VAdd(t.a, VAdd(VScale(VSub(t.b, t.a), Q(i, 2)),
                   VScale(VSub(t.c, t.a), Q(j, 2))))

TriangleCoplanarPointInsideQuery ==
    \E t \in Triangles, i \in HalfSteps, j \in HalfSteps :
        query = Call("Triangle::coplanar_point_inside", t, PlanePoint(t, i, j))

TriangleBarycentricCoordinatesQuery ==
    \E t \in Triangles, i \in HalfSteps, j \in HalfSteps :
        query = Call("Triangle::barycentric_coordinates", t, PlanePoint(t, i, j))

ContactQuery ==
    \/ SphereSphereQuery
    \/ SphereTriangleQuery
    \/ RayTriangleQuery
    \/ LineSegmentTriangleQuery
    \/ TriangleLineSegmentQuery

PlaneQuery ==
    \/ PlaneFromPointsQuery
    \/ PlaneFromTriangleQuery
    \/ PlaneDistanceQuery
    \/ DistancePlanePointQuery

-----------------------------------------------------------------------------
(* The state machine: a query is drawn, then its operation is applied.     *)

Pending == [kind |-> "Pending"]

Bool(b) == [kind |-> "Bool", value |-> b]

F32(x) == [kind |-> "F32", value |-> x]

PlaneValue(plane) == [kind |-> "Plane", normal |-> plane.normal, d |-> plane.d]

PointValue(p) == [kind |-> "Point", value |-> p]

Corner(t, i) == IF i = 1 THEN t.a ELSE IF i = 2 THEN t.b ELSE t.c

Init ==
    /\ ContactQuery
    /\ result = Pending

SphereCollidesSphere ==
    /\ query.op = "Sphere.collides(Sphere)"
    /\ result.kind = "Pending"
    /\ result' = Sphere_collides_Sphere(query.self, query.rhs)
    /\ UNCHANGED query

SphereCollidesTriangle ==
    /\ query.op = "Sphere.collides(Triangle)"
    /\ result.kind = "Pending"
    /\ result' = Sphere_collides_Triangle(query.self, query.rhs)
    /\ UNCHANGED query

RayCollidesTriangle ==
    /\ query.op = "Ray.collides(Triangle)"
    /\ result.kind = "Pending"
    /\ result' = Ray_collides_Triangle(query.self, query.rhs)
    /\ UNCHANGED query

LineSegmentCollidesTriangle ==
    /\ query.op = "LineSegment.collides(Triangle)"
    /\ result.kind = "Pending"
    /\ result' = LineSegment_collides_Triangle(query.self, query.rhs)
    /\ UNCHANGED query

TriangleIntersectsLineSegment ==
    /\ query.op = "Triangle.intersects(LineSegment)"
    /\ result.kind = "Pending"
    /\ result' = Bool(Triangle_intersects_LineSegment(query.self, query.rhs))
    /\ UNCHANGED query

PlaneFromPoints ==
    /\ query.op = "Plane::from_points"
    /\ result.kind = "Pending"
    /\ result' = PlaneValue(Plane_from_points(query.self.a, query.self.b, query.self.c))
    /\ UNCHANGED query

PlaneFromTriangle ==
    /\ query.op = "Plane::from(&Triangle)"
    /\ result.kind = "Pending"
    /\ result' = PlaneValue(Plane_from_Triangle(query.self))
    /\ UNCHANGED query

PlaneDistance ==
    /\ query.op = "Plane::distance"
    /\ result.kind = "Pending"
    /\ result' = F32(Plane_distance(
                        Plane_from_points(query.self.a, query.self.b, query.self.c),
                        Corner(query.self, query.rhs)))
    /\ UNCHANGED query

DistancePlanePoint ==
    /\ query.op = "Distance<Point> for Plane"
    /\ result.kind = "Pending"
    /\ result' = F32(Plane_distance_Point(
                        Plane_from_points(query.self.a, query.self.b, query.self.c),
                        Corner(query.self, query.rhs)))
    /\ UNCHANGED query

SphereIntersectsRay ==
    /\ query.op = "Sphere.intersects(Ray)"
    /\ result.kind = "Pending"
    /\ result' = Bool(Sphere_intersects_Ray(query.self, query.rhs))
    /\ UNCHANGED query

RayIntersectsSphere ==
    /\ query.op = "Ray.intersects(Sphere)"
    /\ result.kind = "Pending"
    /\ result' = Bool(Ray_intersects_Sphere(query.self, query.rhs))
    /\ UNCHANGED query

PlaneIntersectsRay ==
    /\ query.op = "Plane.intersects(Ray)"
    /\ result.kind = "Pending"
    /\ result' = Bool(Plane_intersects_Ray(query.self, query.rhs))
    /\ UNCHANGED query

RayIntersectsPlane ==
    /\ query.op = "Ray.intersects(Plane)"
    /\ result.kind = "Pending"
    /\ result' = Bool(Ray_intersects_Plane(query.self, query.rhs))
    /\ UNCHANGED query

SphereIntersectsLineSegment ==
    /\ query.op = "Sphere.intersects(LineSegment)"
    /\ result.kind = "Pending"
    /\ result' = Bool(Sphere_intersects_LineSegment(query.self, query.rhs))
    /\ UNCHANGED query

LineSegmentIntersectsSphere ==
    /\ query.op = "LineSegment.intersects(Sphere)"
    /\ result.kind = "Pending"
    /\ result' = Bool(LineSegment_intersects_Sphere(query.self, query.rhs))
    /\ UNCHANGED query

PlaneIntersectsSphere ==
    /\ query.op = "Plane.intersects(Sphere)"
    /\ result.kind = "Pending"
    /\ result' = Bool(Plane_intersects_Sphere(query.self, query.rhs))
    /\ UNCHANGED query

SphereIntersectsPlane ==
    /\ query.op = "Sphere.intersects(Plane)"
    /\ result.kind = "Pending"
    /\ result' = Bool(Sphere_intersects_Plane(query.self, query.rhs))
    /\ UNCHANGED query

TriangleIntersectsSphere ==
    /\ query.op = "Triangle.intersects(Sphere)"
    /\ result.kind = "Pending"
    /\ result' = Bool(Triangle_intersects_Sphere(query.self, query.rhs))
    /\ UNCHANGED query

SphereIntersectsTriangle ==
    /\ query.op = "Sphere.intersects(Triangle)"
    /\ result.kind = "Pending"
    /\ result' = Bool(Sphere_intersects_Triangle(query.self, query.rhs))
    /\ UNCHANGED query

TriangleIntersectsRay ==
    /\ query.op = "Triangle.intersects(Ray)"
    /\ result.kind = "Pending"
    /\ result' = Bool(Triangle_intersects_Ray(query.self, query.rhs))
    /\ UNCHANGED query

RayIntersectsTriangle ==
    /\ query.op = "Ray.intersects(Triangle)"
    /\ result.kind = "Pending"
    /\ result' = Bool(Ray_intersects_Triangle(query.self, query.rhs))
    /\ UNCHANGED query

LineSegmentIntersectsTriangle ==
    /\ query.op = "LineSegment.intersects(Triangle)"
    /\ result.kind = "Pending"
    /\ result' = Bool(LineSegment_intersects_Triangle(query.self, query.rhs))
    /\ UNCHANGED query

SphereIntersectsSphere ==
    /\ query.op = "Sphere.intersects(Sphere)"
    /\ result.kind = "Pending"
    /\ result' = Bool(Sphere_intersects_Sphere(query.self, query.rhs))
    /\ UNCHANGED query

TriangleClosestPointPoint ==
    /\ query.op = "Triangle.closest_point(Point)"
    /\ result.kind = "Pending"
    /\ result' = PointValue(Triangle_closest_point_Point(query.self, query.rhs))
    /\ UNCHANGED query

TrianglePointClosestTo ==
    /\ query.op = "Triangle::point_closest_to"
    /\ result.kind = "Pending"
    /\ result' = PointValue(Triangle_point_closest_to(query.self, query.rhs))
    /\ UNCHANGED query

LineSegmentClosestPointPoint ==
    /\ query.op = "LineSegment.closest_point(Point)"
    /\ result.kind = "Pending"
    /\ result' = PointValue(LineSegment_closest_point_Point(query.self, query.rhs))
    /\ UNCHANGED query

RayClosestPointPoint ==
    /\ query.op = "Ray.closest_point(Point)"
    /\ result.kind = "Pending"
    /\ result' = PointValue(Ray_closest_point_Point(query.self, query.rhs))
    /\ UNCHANGED query

LineClosestPointLine ==
    /\ query.op = "Line.closest_point(Line)"
    /\ result.kind = "Pending"
    /\ result' = PointValue(Line_closest_point_Line(query.self, query.rhs))
    /\ UNCHANGED query

LineDistancePoint ==
    /\ query.op = "Line.distance(Point)"
    /\ result.kind = "Pending"
    /\ result' = F32(Line_distance_Point(query.self, query.rhs))
    /\ UNCHANGED query

LineDistanceLine ==
    /\ query.op = "Line.distance(Line)"
    /\ result.kind = "Pending"
    /\ result' = F32(Line_distance_Line(query.self, query.rhs))
    /\ UNCHANGED query

LineSegmentDistancePoint ==
    /\ query.op = "LineSegment.distance(Point)"
    /\ result.kind = "Pending"
    /\ result' = F32(LineSegment_distance_Point(query.self, query.rhs))
    /\ UNCHANGED query

LineSegmentDistanceLineSegment ==
    /\ query.op = "LineSegment.distance(LineSegment)"
    /\ result.kind = "Pending"
    /\ result' = F32(LineSegment_distance_LineSegment(query.self, query.rhs))
    /\ UNCHANGED query

RayDistancePoint ==
    /\ query.op = "Ray.distance(Point)"
    /\ result.kind = "Pending"
    /\ result' = F32(Ray_distance_Point(query.self, query.rhs))
    /\ UNCHANGED query

RayDistanceRay ==
    /\ query.op = "Ray.distance(Ray)"
    /\ result.kind = "Pending"
    /\ result' = F32(Ray_distance_Ray(query.self, query.rhs))
    /\ UNCHANGED query

RayDistanceLine ==
    /\ query.op = "Ray.distance(Line)"
    /\ result.kind = "Pending"
    /\ result' = F32(Ray_distance_Line(query.self, query.rhs))
    /\ UNCHANGED query

RayDistanceLineSegment ==
    /\ query.op = "Ray.distance(LineSegment)"
    /\ result.kind = "Pending"
    /\ result' = F32(Ray_distance_LineSegment(query.self, query.rhs))
    /\ UNCHANGED query

SphereDistancePoint ==
    /\ query.op = "Sphere.distance(Point)"
    /\ result.kind = "Pending"
    /\ result' = F32(Sphere_distance_Point(query.self, query.rhs))
    /\ UNCHANGED query

CapsuleDistancePoint ==
    /\ query.op = "Capsule.distance(Point)"
    /\ result.kind = "Pending"
    /\ result' = F32(Capsule_distance_Point(query.self, query.rhs))
    /\ UNCHANGED query

RayClosestPointRay ==
    /\ query.op = "Ray.closest_point(Ray)"
    /\ result.kind = "Pending"
    /\ result' = PointValue(Ray_closest_point_Ray(query.self, query.rhs))
    /\ UNCHANGED query

RayClosestPointLine ==
    /\ query.op = "Ray.closest_point(Line)"
    /\ result.kind = "Pending"
    /\ result' = PointValue(Ray_closest_point_Line(query.self, query.rhs))
    /\ UNCHANGED query

RayClosestPointLineSegment ==
    /\ query.op = "Ray.closest_point(LineSegment)"
    /\ result.kind = "Pending"
    /\ result' = PointValue(Ray_closest_point_LineSegment(query.self, query.rhs))
    /\ UNCHANGED query

LineSegmentClosestPointLineSegment ==
    /\ query.op = "LineSegment.closest_point(LineSegment)"
    /\ result.kind = "Pending"
    /\ result' = PointValue(LineSegment_closest_point_LineSegment(query.self, query.rhs))
    /\ UNCHANGED query

TriangleCoplanarPointInside ==
    /\ query.op = "Triangle::coplanar_point_inside"
    /\ result.kind = "Pending"
    /\ result' = Bool(Triangle_coplanar_point_inside(query.self, query.rhs))
    /\ UNCHANGED query

TriangleBarycentricCoordinates ==
    /\ query.op = "Triangle::barycentric_coordinates"
    /\ result.kind = "Pending"
    /\ result' = PointValue(Triangle_barycentric_coordinates(query.self, query.rhs))
    /\ UNCHANGED query

Next ==
    \/ SphereCollidesSphere
    \/ SphereCollidesTriangle
    \/ RayCollidesTriangle
    \/ LineSegmentCollidesTriangle
    \/ TriangleIntersectsLineSegment

Spec == Init /\ [][Next]_vars

\* One specification per family of queries.
InitSphereSphere == SphereSphereQuery /\ result = Pending

SpecSphereSphere == InitSphereSphere /\ [][SphereCollidesSphere]_vars

InitSphereTriangle == SphereTriangleQuery /\ result = Pending

SpecSphereTriangle == InitSphereTriangle /\ [][SphereCollidesTriangle]_vars

InitRayTriangle == RayTriangleQuery /\ result = Pending

SpecRayTriangle == InitRayTriangle /\ [][RayCollidesTriangle]_vars

InitLineSegmentTriangle ==
    /\ LineSegmentTriangleQuery \/ TriangleLineSegmentQuery
    /\ result = Pending

NextLineSegmentTriangle ==
    \/ LineSegmentCollidesTriangle
    \/ TriangleIntersectsLineSegment

SpecLineSegmentTriangle ==
    InitLineSegmentTriangle /\ [][NextLineSegmentTriangle]_vars

InitPlaneRay ==
    /\ PlaneIntersectsRayQuery \/ RayIntersectsPlaneQuery
    /\ result = Pending

NextPlaneRay ==
    \/ PlaneIntersectsRay
    \/ RayIntersectsPlane

SpecPlaneRay == InitPlaneRay /\ [][NextPlaneRay]_vars

InitIntersects == IntersectsQuery /\ result = Pending

NextIntersects ==
    \/ SphereIntersectsRay
    \/ RayIntersectsSphere
    \/ PlaneIntersectsRay
    \/ RayIntersectsPlane
    \/ SphereIntersectsLineSegment
    \/ LineSegmentIntersectsSphere
    \/ PlaneIntersectsSphere
    \/ SphereIntersectsPlane
    \/ TriangleIntersectsSphere
    \/ SphereIntersectsTriangle
    \/ TriangleIntersectsRay
    \/ RayIntersectsTriangle
    \/ TriangleIntersectsLineSegment
    \/ LineSegmentIntersectsTriangle
    \/ SphereIntersectsSphere

SpecIntersects == InitIntersects /\ [][NextIntersects]_vars

InitClosestPoint == ClosestPointQuery /\ result = Pending

NextClosestPoint ==
    \/ TriangleClosestPointPoint
    \/ TrianglePointClosestTo
    \/ LineSegmentClosestPointPoint
    \/ RayClosestPointPoint
    \/ LineClosestPointLine

SpecClosestPoint == InitClosestPoint /\ [][NextClosestPoint]_vars

InitDistance == DistanceQuery /\ result = Pending

NextDistance ==
    \/ LineDistancePoint
    \/ LineDistanceLine
    \/ LineSegmentDistancePoint
    \/ LineSegmentDistanceLineSegment
    \/ RayDistancePoint
    \/ RayDistanceRay
    \/ RayDistanceLine
    \/ RayDistanceLineSegment
    \/ SphereDistancePoint
    \/ CapsuleDistancePoint

SpecDistance == InitDistance /\ [][NextDistance]_vars

InitClosestPair == ClosestPairQuery /\ result = Pending

NextClosestPair ==
    \/ RayClosestPointRay
    \/ RayClosestPointLine
    \/ RayClosestPointLineSegment
    \/ LineSegmentClosestPointLineSegment

SpecClosestPair == InitClosestPair /\ [][NextClosestPair]_vars

InitSphereSegment ==
    /\ SphereIntersectsLineSegmentQuery \/ LineSegmentIntersectsSphereQuery
    /\ result = Pending

NextSphereSegment ==
    \/ SphereIntersectsLineSegment
    \/ LineSegmentIntersectsSphere

SpecSphereSegment == InitSphereSegment /\ [][NextSphereSegment]_vars

InitSegmentPoint ==
    /\ LineSegmentClosestPointPointQuery \/ LineSegmentDistancePointQuery
    /\ result = Pending

NextSegmentPoint ==
    \/ LineSegmentClosestPointPoint
    \/ LineSegmentDistancePoint

SpecSegmentPoint == InitSegmentPoint /\ [][NextSegmentPoint]_vars

InitTriangleInside ==
    /\ TriangleCoplanarPointInsideQuery \/ TriangleBarycentricCoordinatesQuery
    /\ result = Pending

NextTriangleInside ==
    \/ TriangleCoplanarPointInside
    \/ TriangleBarycentricCoordinates

SpecTriangleInside == InitTriangleInside /\ [][NextTriangleInside]_vars

InitIntersectsCollides ==
    /\ \/ ContactQuery
       \/ SphereIntersectsSphereQuery
       \/ SphereIntersectsTriangleQuery
       \/ RayIntersectsTriangleQuery
       \/ LineSegmentIntersectsTriangleQuery
    /\ result = Pending

NextIntersectsCollides ==
    \/ SphereCollidesSphere
    \/ SphereCollidesTriangle
    \/ RayCollidesTriangle
    \/ LineSegmentCollidesTriangle
    \/ SphereIntersectsSphere
    \/ SphereIntersectsTriangle
    \/ RayIntersectsTriangle
    \/ LineSegmentIntersectsTriangle

SpecIntersectsCollides == InitIntersectsCollides /\ [][NextIntersectsCollides]_vars

InitSphereRay ==
    /\ SphereIntersectsRayQuery \/ RayIntersectsSphereQuery
    /\ result = Pending

NextSphereRay ==
    \/ SphereIntersectsRay
    \/ RayIntersectsSphere

SpecSphereRay == InitSphereRay /\ [][NextSphereRay]_vars

InitPlane == PlaneQuery /\ result = Pending

NextPlane ==
    \/ PlaneFromPoints
    \/ PlaneFromTriangle
    \/ PlaneDistance
    \/ DistancePlanePoint

SpecPlane == InitPlane /\ [][NextPlane]_vars

-----------------------------------------------------------------------------
(* Reference geometry for the properties below.  It is written from the    *)
(* geometric meaning of the queries and uses none of the operators that    *)
(* model plane.rs, triangle.rs, collision.rs or intersection.rs.           *)

Done(op) == query.op = op /\ result.kind # "Pending"

ZeroVector == <<Zero, Zero, Zero>>

NaNVector == <<NaN, NaN, NaN>>

DistSq(x, y) == MagnitudeSquared(VSub(x, y))

IsUnit(v) == Eq(MagnitudeSquared(v), One)

\* (b - a) x (c - a): perpendicular to the triangle's plane, not normalised.
RawNormal(t) == Cross(VSub(t.b, t.a), VSub(t.c, t.a))

InPlane(t, x) == Eq(Dot(RawNormal(t), VSub(x, t.a)), Zero)

\* x, taken in the triangle's plane, is on the inner side of all three edges.
WithinEdges(t, x) ==
    Let([n \in {RawNormal(t)} |->
        /\ Ge(Dot(n, Cross(VSub(t.b, t.a), VSub(x, t.a))), Zero)
        /\ Ge(Dot(n, Cross(VSub(t.c, t.b), VSub(x, t.b))), Zero)
        /\ Ge(Dot(n, Cross(VSub(t.a, t.c), VSub(x, t.c))), Zero)])

OnTriangle(t, x) == InPlane(t, x) /\ WithinEdges(t, x)

\* The orthogonal projection of x onto the triangle's plane.
ProjectToPlane(t, x) ==
    Let([n \in {RawNormal(t)} |->
        VSub(x, VScale(n, Div(Dot(n, VSub(x, t.a)), Dot(n, n))))])

\* The point of the segment u-v (u # v) nearest to x.
NearestOnSegment(u, v, x) ==
    Let([w \in {VSub(v, u)} |->
    Let([s \in {Div(Dot(VSub(x, u), w), Dot(w, w))} |->
        IF Lt(s, Zero) THEN u
        ELSE IF Gt(s, One) THEN v
        ELSE VAdd(u, VScale(w, s))])])

\* The point of the triangle nearest to x: the nearest among the projection
\* (when it falls within the edges) and the nearest points of the edges.
NearestOnTriangle(t, x) ==
    Let([proj \in {ProjectToPlane(t, x)} |->
    Let([cands \in
            {{NearestOnSegment(t.a, t.b, x), NearestOnSegment(t.b, t.c, x),
              NearestOnSegment(t.c, t.a, x)}
                 \cup (IF WithinEdges(t, proj) THEN {proj} ELSE {})} |->
        CHOOSE y \in cands : \A z \in cands : Le(DistSq(y, x), DistSq(z, x))])])

\* The half-line o + s * dir, s >= 0, meets the triangle, and where.
LineParameter(t, o, dir) ==
    Let([n \in {RawNormal(t)} |-> Div(Dot(n, VSub(t.a, o)), Dot(n, dir))])

Crossing(t, o, dir) == VAdd(o, VScale(dir, LineParameter(t, o, dir)))

RayMeetsTriangle(t, ray) ==
    /\ ~IsZero(Dot(RawNormal(t), ray.direction))
    /\ Ge(LineParameter(t, ray.origin, ray.direction), Zero)
    /\ WithinEdges(t, Crossing(t, ray.origin, ray.direction))

\* The segment start + s * (end - start), 0 <= s <= 1, meets the triangle.
SegmentMeetsTriangle(t, seg) ==
    Let([v \in {VSub(seg.end, seg.start)} |->
    Let([s \in {LineParameter(t, seg.start, v)} |->
        /\ ~IsZero(Dot(RawNormal(t), v))
        /\ Ge(s, Zero)
        /\ Le(s, One)
        /\ WithinEdges(t, VAdd(seg.start, VScale(v, s)))])])

\* n is the unit normal of the triangle's plane, of either orientation.
IsPlaneNormal(t, n) == IsUnit(n) /\ Cross(n, RawNormal(t)) = ZeroVector

-----------------------------------------------------------------------------
C5_OverlapNonNegative ==
    result.kind = "Some" => Ge(result.overlap, Zero)

\* A sphere that touches a triangle without entering it: overlap is 0.
C5_Witness ==
    /\ Done("Sphere.collides(Triangle)")
    /\ result.kind = "Some"
    /\ IsZero(result.overlap)

(* C2.  Sphere.collides(Triangle) returns Some(contact) exactly when the   *)
(* distance g from the sphere centre to the nearest point of the triangle  *)
(* is <= radius, for triangles lying in any plane; then contact.point is   *)
(* that nearest point and contact.overlap = radius - g; otherwise None.    *)
C2_SphereTriangleContact ==
    Done("Sphere.collides(Triangle)") =>
        Let([nearest \in {NearestOnTriangle(query.rhs, query.self.center)} |->
        Let([g2 \in {DistSq(nearest, query.self.center)} |->
            /\ (result.kind = "Some")
                 <=> Le(g2, Mul(query.self.radius, query.self.radius))
            /\ result.kind = "Some" =>
                 Let([g \in {Sub(query.self.radius, result.overlap)} |->
                     /\ result.point = nearest
                     /\ Ge(g, Zero)
                     /\ Eq(Mul(g, g), g2)])])])

(* C3.  Ray.collides(Triangle) returns Some(contact) exactly when the ray  *)
(* origin + s * direction, s >= 0, is not parallel to the triangle's plane *)
(* and meets that plane at a point inside or on the triangle, for          *)
(* triangles lying in any plane; then contact.point is that meeting point, *)
(* contact.normal is the plane normal and contact.overlap = 0.             *)
C3_RayTriangleContact ==
    Done("Ray.collides(Triangle)") =>
        LET ray == query.self
            t   == query.rhs
        IN  /\ (result.kind = "Some") <=> RayMeetsTriangle(t, ray)
            /\ result.kind = "Some" =>
                 /\ InPlane(t, result.point)
                 /\ result.point = Crossing(t, ray.origin, ray.direction)
                 /\ IsPlaneNormal(t, result.normal)
                 /\ IsZero(result.overlap)

(* C4.  LineSegment.collides(Triangle) and Triangle.intersects(LineSegment)*)
(* accept exactly when the segment is not parallel to the triangle's       *)
(* plane, crosses the plane at a parameter within [0, length] from         *)
(* segment.start, and the crossing point is inside or on the triangle, for *)
(* triangles lying in any plane.  Stated for segments with start # end.    *)
C4_SegmentTriangleAccepts ==
    /\ Done("LineSegment.collides(Triangle)")
         /\ query.self.start # query.self.end
         => ((result.kind = "Some") <=> SegmentMeetsTriangle(query.rhs, query.self))
    /\ Done("Triangle.intersects(LineSegment)")
         /\ query.rhs.start # query.rhs.end
         => (result.value <=> SegmentMeetsTriangle(query.self, query.rhs))

(* C6.  Whenever collides returns Some(contact), contact.normal is a       *)
(* well-defined vector of unit length, also for two spheres whose centres  *)
(* coincide.                                                               *)
C6_NormalIsUnit ==
    result.kind = "Some" =>
        /\ \A i \in 1 .. 3 : IsFin(result.normal[i])
        /\ IsUnit(result.normal)

(* C7.  Whenever A.collides(B) returns Some(contact), contact.normal       *)
(* points from B toward A: for two spheres with distinct centres along     *)
(* A.center - B.center, and for Sphere.collides(Triangle) toward the side  *)
(* of the triangle's plane on which the sphere centre lies.                *)
C7_NormalPointsToReceiver ==
    result.kind = "Some" =>
        /\ query.op = "Sphere.collides(Sphere)"
             /\ query.self.center # query.rhs.center
             => Gt(Dot(result.normal, VSub(query.self.center, query.rhs.center)),
                   Zero)
        /\ query.op = "Sphere.collides(Triangle)"
             => Ge(Dot(result.normal, VSub(query.self.center, query.rhs.a)), Zero)

(* C8.  Whenever collides returns Some(contact), contact.point lies on the *)
(* second sphere's surface for Sphere-Sphere, and on the triangle (in its  *)
(* plane and within its edges) for Sphere-Triangle, Ray-Triangle and       *)
(* LineSegment-Triangle.                                                   *)
C8_PointOnBoundary ==
    result.kind = "Some" =>
        IF query.op = "Sphere.collides(Sphere)"
        THEN Eq(DistSq(result.point, query.rhs.center),
                Mul(query.rhs.radius, query.rhs.radius))
        ELSE OnTriangle(query.rhs, result.point)

(* C9.  For three non-collinear points p0, p1, p2, each of them lies on    *)
(* Plane::from_points(p0, p1, p2): its signed distance normal . p_i - d,   *)
(* computed by the plane's distance, is 0, also when the plane does not    *)
(* pass through the world origin.                                          *)
C9_DefiningPointsOnPlane ==
    result.kind = "F32" => IsZero(result.value)

(* C10.  Plane::from_points(p0, p1, p2) yields normal =                    *)
(* normalize((p1 - p0) x (p2 - p0)) and d = normal . p0, and the plane     *)
(* derived from a Triangle(a, b, c) uses the same convention.              *)
C10_PlaneConvention ==
    result.kind = "Plane" =>
        LET n == Normalized(RawNormal(query.self))
        IN  /\ result.normal = n
            /\ Eq(result.d, Dot(n, query.self.a))

-----------------------------------------------------------------------------
(* Reference geometry for rays and planes.                                 *)

\* Some point origin + t * direction, t >= 0, of the ray has signed distance
\* normal . X - d = 0 from the plane.
RayReachesPlane(plane, ray) ==
    Let([along \in {Dot(plane.normal, ray.direction)} |->
    Let([gap \in {Sub(plane.d, Dot(plane.normal, ray.origin))} |->
        IF IsZero(along) THEN IsZero(gap)
        ELSE Sign(gap) * Sign(along) >= 0])])

-----------------------------------------------------------------------------
(* C11.  Plane.intersects(Ray) is true exactly when some point origin +    *)
(* t * direction with t >= 0 lies on the plane, that is has signed         *)
(* distance normal . X - d = 0, for planes of any offset d built by        *)
(* Plane::new, Plane::from_point_and_normal or Plane::from_points; a ray   *)
(* parallel to the plane and off it does not intersect.                    *)

C11_PlaneRayIntersects ==
    Done("Plane.intersects(Ray)") =>
        result.value = RayReachesPlane(query.self, query.rhs)

-----------------------------------------------------------------------------
(* C14.  For every pair of shapes whose intersects is exposed in both      *)
(* directions (Sphere/Ray, Plane/Ray, Sphere/LineSegment, Plane/Sphere,    *)
(* Sphere/Sphere, Triangle/Sphere, Triangle/Ray, Triangle/LineSegment)     *)
(* and all inputs, A.intersects(B) = B.intersects(A).                      *)

C14_IntersectsSymmetric ==
    /\ Done("Sphere.intersects(Ray)") =>
           result.value = Ray_intersects_Sphere(query.rhs, query.self)
    /\ Done("Ray.intersects(Sphere)") =>
           result.value = Sphere_intersects_Ray(query.rhs, query.self)
    /\ Done("Plane.intersects(Ray)") =>
           result.value = Ray_intersects_Plane(query.rhs, query.self)
    /\ Done("Ray.intersects(Plane)") =>
           result.value = Plane_intersects_Ray(query.rhs, query.self)
    /\ Done("Sphere.intersects(LineSegment)") =>
           result.value = LineSegment_intersects_Sphere(query.rhs, query.self)
    /\ Done("LineSegment.intersects(Sphere)") =>
           result.value = Sphere_intersects_LineSegment(query.rhs, query.self)
    /\ Done("Plane.intersects(Sphere)") =>
           result.value = Sphere_intersects_Plane(query.rhs, query.self)
    /\ Done("Sphere.intersects(Plane)") =>
           result.value = Plane_intersects_Sphere(query.rhs, query.self)
    /\ Done("Sphere.intersects(Sphere)") =>
           result.value = Sphere_intersects_Sphere(query.rhs, query.self)
    /\ Done("Triangle.intersects(Sphere)") =>
           result.value = Sphere_intersects_Triangle(query.rhs, query.self)
    /\ Done("Sphere.intersects(Triangle)") =>
           result.value = Triangle_intersects_Sphere(query.rhs, query.self)
    /\ Done("Triangle.intersects(Ray)") =>
           result.value = Ray_intersects_Triangle(query.rhs, query.self)
    /\ Done("Ray.intersects(Triangle)") =>
           result.value = Triangle_intersects_Ray(query.rhs, query.self)
    /\ Done("Triangle.intersects(LineSegment)") =>
           result.value = LineSegment_intersects_Triangle(query.rhs, query.self)
    /\ Done("LineSegment.intersects(Triangle)") =>
           result.value = Triangle_intersects_LineSegment(query.rhs, query.self)

\* Two spheres of different radii that touch: the receiver alone would not
\* reach the argument's centre.
C14_Witness ==
    /\ Done("Sphere.intersects(Sphere)")
    /\ result.value = TRUE
    /\ Lt(query.self.radius, query.rhs.radius)
    /\ Gt(DistSq(query.self.center, query.rhs.center),
          Mul(query.self.radius, query.self.radius))

-----------------------------------------------------------------------------
(* Reference geometry for lines, rays and segments.                        *)

\* y is a point of the segment u-v (u # v).
OnSegment(u, v, y) ==
    Let([w \in {VSub(v, u)} |->
        /\ Cross(VSub(y, u), w) = ZeroVector
        /\ Ge(Dot(VSub(y, u), w), Zero)
        /\ Le(Dot(VSub(y, u), w), Dot(w, w))])

\* y is a point of the ray: y = origin + t * direction with t >= 0.
OnRay(ray, y) ==
    /\ Cross(VSub(y, ray.origin), ray.direction) = ZeroVector
    /\ Ge(Dot(VSub(y, ray.origin), ray.direction), Zero)

\* No point of the ray is nearer to x than its point y: moving along the
\* ray from y does not approach x, and neither does moving back when y is
\* not the origin.
NearestOfRay(ray, x, y) ==
    /\ OnRay(ray, y)
    /\ Le(Dot(VSub(x, y), ray.direction), Zero)
    /\ y # ray.origin => IsZero(Dot(VSub(x, y), ray.direction))

Parallel(l1, l2) == Cross(l1.direction, l2.direction) = ZeroVector

OnLine(l, y) == Cross(VSub(y, l.point), l.direction) = ZeroVector

\* The squared distance from the point x to the line l.
PointLineSq(l, x) ==
    Let([c \in {Cross(l.direction, VSub(x, l.point))} |->
        Div(Dot(c, c), Dot(l.direction, l.direction))])

\* The squared minimum distance between a point of l1 and a point of l2:
\* along the common perpendicular, or from any point of l1 when parallel.
LineGapSq(l1, l2) ==
    Let([c \in {Cross(l1.direction, l2.direction)} |->
        IF c = ZeroVector THEN PointLineSq(l2, l1.point)
        ELSE Let([h \in {Dot(VSub(l1.point, l2.point), c)} |->
                 Div(Mul(h, h), Dot(c, c))])])

Least(S) == CHOOSE m \in S : \A z \in S : Le(m, z)

\* The squared distances of the pairs among which the nearest pair of two
\* segments (both with start # end) is found: each end point with the
\* nearest point of the other segment, and the feet of the common
\* perpendicular when both fall within the segments.
SegmentPairs(s1, s2) ==
    Let([u \in {VSub(s1.end, s1.start)} |->
    Let([v \in {VSub(s2.end, s2.start)} |->
    Let([w \in {VSub(s1.start, s2.start)} |->
    Let([den \in {Sub(Mul(Dot(u, u), Dot(v, v)), Mul(Dot(u, v), Dot(u, v)))} |->
    Let([sc \in {Div(Sub(Mul(Dot(u, v), Dot(v, w)), Mul(Dot(v, v), Dot(u, w))),
                     den)} |->
    Let([tc \in {Div(Sub(Mul(Dot(u, u), Dot(v, w)), Mul(Dot(u, v), Dot(u, w))),
                     den)} |->
        { DistSq(s1.start, NearestOnSegment(s2.start, s2.end, s1.start)),
          DistSq(s1.end, NearestOnSegment(s2.start, s2.end, s1.end)),
          DistSq(s2.start, NearestOnSegment(s1.start, s1.end, s2.start)),
          DistSq(s2.end, NearestOnSegment(s1.start, s1.end, s2.end)) }
            \cup (IF /\ ~IsZero(den)
                     /\ Ge(sc, Zero) /\ Le(sc, One)
                     /\ Ge(tc, Zero) /\ Le(tc, One)
                  THEN {MagnitudeSquared(
                            VSub(VAdd(w, VScale(u, sc)), VScale(v, tc)))}
                  ELSE {})])])])])])])

SegmentGapSq(s1, s2) == Least(SegmentPairs(s1, s2))

-----------------------------------------------------------------------------
(* C12.  Triangle.closest_point(P) and Triangle::point_closest_to return   *)
(* the point of the triangle nearest to P: the projection of P onto the    *)
(* triangle's plane when it falls within the triangle, otherwise the       *)
(* nearest to P among the closest points of the edges ab, bc and ca - for  *)
(* every P, also when the nearest point is a vertex shared by two edges,   *)
(* so that two edge distances are equal.                                   *)

C12_TriangleClosestPoint ==
    Done("Triangle.closest_point(Point)") \/ Done("Triangle::point_closest_to")
        => result.value = NearestOnTriangle(query.self, query.rhs)

-----------------------------------------------------------------------------
(* C13.  distance(A, B) >= 0 for every pair that implements Distance       *)
(* except Plane-Point: Line-Point, Line-Line, LineSegment-Point,           *)
(* LineSegment-LineSegment, Ray-Point, Ray-Ray, Ray-Line, Ray-LineSegment, *)
(* Sphere-Point and Capsule-Point, for all inputs.                         *)

C13_DistanceNonNegative ==
    /\ Done("Line.distance(Point)") => Ge(result.value, Zero)
    /\ Done("Line.distance(Line)") => Ge(result.value, Zero)
    /\ Done("LineSegment.distance(Point)") => Ge(result.value, Zero)
    /\ Done("LineSegment.distance(LineSegment)") => Ge(result.value, Zero)
    /\ Done("Ray.distance(Point)") => Ge(result.value, Zero)
    /\ Done("Ray.distance(Ray)") => Ge(result.value, Zero)
    /\ Done("Ray.distance(Line)") => Ge(result.value, Zero)
    /\ Done("Ray.distance(LineSegment)") => Ge(result.value, Zero)
    /\ Done("Sphere.distance(Point)") => Ge(result.value, Zero)
    /\ Done("Capsule.distance(Point)") => Ge(result.value, Zero)

-----------------------------------------------------------------------------
(* C15.  LineSegment.closest_point(P), for a segment with start # end and  *)
(* any point P, returns start + u * t, u the unit direction and t the      *)
(* projection of P - start onto u clamped to [0, length]: the result lies  *)
(* on the segment and no other point of the segment is nearer to P (start  *)
(* when the projection is negative, end when it exceeds the length).       *)

C15_SegmentClosestPoint ==
    /\ Done("LineSegment.closest_point(Point)")
    /\ query.self.start # query.self.end
    => /\ OnSegment(query.self.start, query.self.end, result.value)
       /\ result.value
              = NearestOnSegment(query.self.start, query.self.end, query.rhs)

\* P projects beyond the end of the segment and is off the segment's line.
C15_Witness ==
    /\ Done("LineSegment.closest_point(Point)")
    /\ query.self.start # query.self.end
    /\ Gt(Dot(VSub(query.rhs, query.self.end),
              VSub(query.self.end, query.self.start)), Zero)
    /\ Cross(VSub(query.rhs, query.self.end),
             VSub(query.self.end, query.self.start)) # ZeroVector
    /\ result.value = query.self.end

-----------------------------------------------------------------------------
(* C16.  Ray.closest_point(P), for a ray with unit direction and any point *)
(* P, returns origin when the projection of P - origin onto direction is   *)
(* <= 0 and origin + direction * projection otherwise: the result lies on  *)
(* the ray (parameter t >= 0) and no other point of the ray is nearer.     *)

C16_RayClosestPoint ==
    Done("Ray.closest_point(Point)") =>
        /\ NearestOfRay(query.self, query.rhs, result.value)
        /\ Le(Dot(VSub(query.rhs, query.self.origin), query.self.direction),
              Zero) => result.value = query.self.origin

\* P is behind the origin of the ray and off the ray's line.
C16_Witness ==
    /\ Done("Ray.closest_point(Point)")
    /\ Lt(Dot(VSub(query.rhs, query.self.origin), query.self.direction), Zero)
    /\ Cross(VSub(query.rhs, query.self.origin), query.self.direction)
           # ZeroVector
    /\ result.value = query.self.origin

-----------------------------------------------------------------------------
(* C17.  Line.closest_point(Line), for two lines with unit directions that *)
(* are not parallel, returns a point that lies on the first line and is    *)
(* the point of the first line at minimum distance from the second line    *)
(* (the point where they meet, when the lines cross).                      *)

-----------------------------------------------------------------------------
(* C18.  Line.closest_point(Line) returns exactly the first line's         *)
(* reference point self.point whenever d_p = 1 - (d1 . d2)^2 is below      *)
(* epsilon (parallel or anti-parallel unit directions); d_p is not divided *)
(* by, so the point is finite, and it depends on the inputs alone.         *)

C18_ParallelFallback ==
    /\ Done("Line.closest_point(Line)")
    /\ Lt(Sub(One, Mul(Dot(query.self.direction, query.rhs.direction),
                       Dot(query.self.direction, query.rhs.direction))),
          EPSILON)
    => result.value = query.self.point

\* Two distinct anti-parallel lines.
C18_Witness ==
    /\ Done("Line.closest_point(Line)")
    /\ Eq(Dot(query.self.direction, query.rhs.direction), Neg(One))
    /\ ~OnLine(query.rhs, query.self.point)
    /\ result.value = query.self.point

-----------------------------------------------------------------------------
(* C19.  Line.distance(Line), for lines with unit directions, is the       *)
(* minimum distance between a point of the first line and a point of the   *)
(* second: 0 for lines that meet, the length of the common perpendicular   *)
(* for skew lines, the perpendicular separation for parallel and           *)
(* anti-parallel lines.                                                    *)

-----------------------------------------------------------------------------
(* C20.  LineSegment.distance(LineSegment), for two segments with start #  *)
(* end, is the minimum distance between a point of the first segment and a *)
(* point of the second (collinear, parallel, perpendicular and skew        *)
(* placements), and so s1.distance(s2) = s2.distance(s1).                  *)

-----------------------------------------------------------------------------
(* Reference geometry for pairs of lines, rays and segments.  Each is the  *)
(* set of points p + s * w with lo <= s <= hi, a bound being infinite      *)
(* where the shape has no end.                                             *)

LinePoints(l) == [p |-> l.point, w |-> l.direction, lo |-> NInf, hi |-> PInf]

RayPoints(r) == [p |-> r.origin, w |-> r.direction, lo |-> Zero, hi |-> PInf]

SegmentPoints(g) ==
    [p |-> g.start, w |-> VSub(g.end, g.start), lo |-> Zero, hi |-> One]

Within(c, s) == Ge(s, c.lo) /\ Le(s, c.hi)

Clamped(c, s) == IF Lt(s, c.lo) THEN c.lo ELSE IF Gt(s, c.hi) THEN c.hi ELSE s

At(c, s) == VAdd(c.p, VScale(c.w, s))

\* y is a point of c.
Holds(c, y) ==
    /\ Cross(VSub(y, c.p), c.w) = ZeroVector
    /\ Within(c, Div(Dot(VSub(y, c.p), c.w), Dot(c.w, c.w)))

\* The squared distance from the point x to the nearest point of c.
PointGapSq(c, x) ==
    Let([s \in {Div(Dot(VSub(x, c.p), c.w), Dot(c.w, c.w))} |->
        DistSq(x, At(c, Clamped(c, s)))])

Ends(c) ==
    (IF IsFin(c.lo) THEN {At(c, c.lo)} ELSE {})
        \cup (IF IsFin(c.hi) THEN {At(c, c.hi)} ELSE {})

\* The squared distances of the pairs among which the nearest pair of c1
\* and c2 is found: each end and reference point with the nearest point of
\* the other shape, and the feet of the common perpendicular of the two
\* carrier lines when both fall within the shapes.
GapCandidates(c1, c2) ==
    Let([w \in {VSub(c1.p, c2.p)} |->
    Let([den \in {Sub(Mul(Dot(c1.w, c1.w), Dot(c2.w, c2.w)),
                      Mul(Dot(c1.w, c2.w), Dot(c1.w, c2.w)))} |->
    Let([sc \in {Div(Sub(Mul(Dot(c1.w, c2.w), Dot(c2.w, w)),
                         Mul(Dot(c2.w, c2.w), Dot(c1.w, w))), den)} |->
    Let([tc \in {Div(Sub(Mul(Dot(c1.w, c1.w), Dot(c2.w, w)),
                         Mul(Dot(c1.w, c2.w), Dot(c1.w, w))), den)} |->
        {PointGapSq(c2, x) : x \in Ends(c1) \cup {c1.p}}
            \cup {PointGapSq(c1, x) : x \in Ends(c2) \cup {c2.p}}
            \cup (IF ~IsZero(den) /\ Within(c1, sc) /\ Within(c2, tc)
                  THEN {MagnitudeSquared(
                            VSub(VAdd(w, VScale(c1.w, sc)), VScale(c2.w, tc)))}
                  ELSE {})])])])])

GapSq(c1, c2) == Least(GapCandidates(c1, c2))

\* y is a point of c1 whose distance to c2 is the least over c1.
NearestTo(c1, c2, y) ==
    /\ Holds(c1, y)
    /\ Eq(PointGapSq(c2, y), GapSq(c1, c2))

-----------------------------------------------------------------------------
(* C21.  For the pairs Ray-Ray, Ray-Line, Ray-LineSegment and              *)
(* LineSegment-LineSegment (segments with start # end) one round of        *)
(* 'solve on the carrier lines, clamp onto the other shape, project back   *)
(* onto self' suffices: A.closest_point(B) is a point of A whose distance  *)
(* to B is the minimum over all points of A.                               *)

-----------------------------------------------------------------------------
(* C22.  Sphere.intersects(LineSegment) is true exactly when the squared   *)
(* distance from the centre to the nearest point of the segment is at most *)
(* the squared radius, touching included; for a segment with start = end   *)
(* the nearest point is start.                                             *)

\* The least squared distance from x to the segment from u to v: that of an
\* end, or of the foot of the perpendicular when it falls between the ends.
SegmentReachSq(u, v, x) ==
    IF u = v THEN DistSq(x, u)
    ELSE
    Let([s \in {Div(Dot(VSub(x, u), VSub(v, u)), DistSq(v, u))} |->
        Least({DistSq(x, u), DistSq(x, v)}
                  \cup (IF Ge(s, Zero) /\ Le(s, One)
                        THEN {DistSq(x, VAdd(u, VScale(VSub(v, u), s)))}
                        ELSE {}))])

SphereReaches(sphere, line) ==
    Le(SegmentReachSq(line.start, line.end, sphere.center),
       Mul(sphere.radius, sphere.radius))

C22_SphereSegmentIntersects ==
    /\ Done("Sphere.intersects(LineSegment)") =>
           result.value = SphereReaches(query.self, query.rhs)
    /\ Done("LineSegment.intersects(Sphere)") =>
           result.value = SphereReaches(query.rhs, query.self)

\* A sphere of positive radius that touches a zero-length segment.
C22_Witness ==
    /\ Done("Sphere.intersects(LineSegment)")
    /\ query.rhs.start = query.rhs.end
    /\ Gt(query.self.radius, Zero)
    /\ Eq(DistSq(query.self.center, query.rhs.start),
          Mul(query.self.radius, query.self.radius))
    /\ result.value = TRUE

-----------------------------------------------------------------------------
(* C23.  Capsule.distance(P) is the distance from P to the capsule's axis  *)
(* segment minus the radius, for every capsule and every point P.          *)

C23_CapsuleDistance ==
    Done("Capsule.distance(Point)") =>
        Eq(result.value,
           Sub(Sqrt(SegmentReachSq(query.self.axis.start, query.self.axis.end,
                                   query.rhs)),
               query.self.radius))

\* The same restricted to capsules whose axis has two distinct ends.
CapsuleDistanceProperAxis ==
    Done("Capsule.distance(Point)")
        /\ query.self.axis.start # query.self.axis.end =>
        Eq(result.value,
           Sub(Sqrt(SegmentReachSq(query.self.axis.start, query.self.axis.end,
                                   query.rhs)),
               query.self.radius))

-----------------------------------------------------------------------------
(* C24.  On a LineSegment with start = end the queries return a defined    *)
(* value: closest_point(P) is start and distance(P) is |P - start|.        *)

C24_DegenerateSegment ==
    /\ Done("LineSegment.closest_point(Point)")
           /\ query.self.start = query.self.end =>
           result.value = query.self.start
    /\ Done("LineSegment.distance(Point)")
           /\ query.self.start = query.self.end =>
           Eq(result.value, Sqrt(DistSq(query.rhs, query.self.start)))

\* What the code returns instead: NaN in every coordinate, and a NaN distance.
DegenerateSegmentIsNaN ==
    /\ Done("LineSegment.closest_point(Point)")
           /\ query.self.start = query.self.end =>
           result.value = NaNVector
    /\ Done("LineSegment.distance(Point)")
           /\ query.self.start = query.self.end =>
           IsNaN(result.value)

-----------------------------------------------------------------------------
(* C25.  For a non-degenerate triangle and a point p of its plane,         *)
(* Triangle::coplanar_point_inside(p) is true exactly when all three       *)
(* components of Triangle::barycentric_coordinates(p) are >= 0, points on  *)
(* an edge or at a corner included.                                        *)

NoneNegative(v) == Ge(v[1], Zero) /\ Ge(v[2], Zero) /\ Ge(v[3], Zero)

C25_InsideTestsAgree ==
    /\ Done("Triangle::coplanar_point_inside") =>
           /\ InPlane(query.self, query.rhs)
           /\ result.value
                  = NoneNegative(
                        Triangle_barycentric_coordinates(query.self, query.rhs))
           /\ result.value = WithinEdges(query.self, query.rhs)
    /\ Done("Triangle::barycentric_coordinates") =>
           NoneNegative(result.value)
               = Triangle_coplanar_point_inside(query.self, query.rhs)

\* A point on an edge, away from the corners: one barycentric coordinate is
\* zero and the edge test accepts the point.
C25_Witness ==
    /\ Done("Triangle::coplanar_point_inside")
    /\ \E i \in 1 .. 3 :
           /\ IsZero(Triangle_barycentric_coordinates(query.self, query.rhs)[i])
           /\ \A j \in (1 .. 3) \ {i} :
                  Gt(Triangle_barycentric_coordinates(query.self, query.rhs)[j],
                     Zero)
    /\ result.value = TRUE

-----------------------------------------------------------------------------
(* C26.  For Sphere-Sphere, Sphere-Triangle, Ray-Triangle and              *)
(* LineSegment-Triangle, A.intersects(B) is true exactly when              *)
(* A.collides(B) returns Some.                                             *)

IsSome(contact) == contact.kind = "Some"

SphereSphereAgree ==
    /\ Done("Sphere.intersects(Sphere)") =>
           result.value = IsSome(Sphere_collides_Sphere(query.self, query.rhs))
    /\ Done("Sphere.collides(Sphere)") =>
           IsSome(result) = Sphere_intersects_Sphere(query.self, query.rhs)

SphereTriangleAgree ==
    /\ Done("Sphere.intersects(Triangle)") =>
           result.value = IsSome(Sphere_collides_Triangle(query.self, query.rhs))
    /\ Done("Sphere.collides(Triangle)") =>
           IsSome(result) = Sphere_intersects_Triangle(query.self, query.rhs)

RayTriangleAgree ==
    /\ Done("Ray.intersects(Triangle)") =>
           result.value = IsSome(Ray_collides_Triangle(query.self, query.rhs))
    /\ Done("Ray.collides(Triangle)") =>
           IsSome(result) = Ray_intersects_Triangle(query.self, query.rhs)

LineSegmentTriangleAgree ==
    /\ Done("LineSegment.intersects(Triangle)") =>
           result.value
               = IsSome(LineSegment_collides_Triangle(query.self, query.rhs))
    /\ Done("LineSegment.collides(Triangle)") =>
           IsSome(result)
               = LineSegment_intersects_Triangle(query.self, query.rhs)

C26_IntersectsIffCollides ==
    /\ SphereSphereAgree
    /\ SphereTriangleAgree
    /\ RayTriangleAgree
    /\ LineSegmentTriangleAgree

-----------------------------------------------------------------------------
(* C27.  Sphere.intersects(Ray) is true exactly when some point            *)
(* origin + t * direction with t >= 0 lies inside or on the sphere; a      *)
(* sphere met by the carrier line only at t < 0 is not reported.           *)

\* Some point of the ray is within the sphere: the nearest one is.
RayEntersSphere(sphere, ray) ==
    Le(PointGapSq(RayPoints(ray), sphere.center),
       Mul(sphere.radius, sphere.radius))

\* Some point of the ray's carrier line is within the sphere.
LineEntersSphere(sphere, ray) ==
    Le(PointGapSq(LinePoints([point |-> ray.origin,
                              direction |-> ray.direction]), sphere.center),
       Mul(sphere.radius, sphere.radius))

C27_SphereRayIntersects ==
    /\ Done("Sphere.intersects(Ray)") =>
           result.value = RayEntersSphere(query.self, query.rhs)
    /\ Done("Ray.intersects(Sphere)") =>
           result.value = RayEntersSphere(query.rhs, query.self)

\* What the code computes: the test on the whole carrier line.
SphereRayTestsCarrierLine ==
    /\ Done("Sphere.intersects(Ray)") =>
           result.value = LineEntersSphere(query.self, query.rhs)
    /\ Done("Ray.intersects(Sphere)") =>
           result.value = LineEntersSphere(query.rhs, query.self)


=============================================================================
